---- MODULE Spec2Model ----
(***************************************************************************)
(* A model of onesy-me/mongo: the search pipeline of BaseCollection        *)
(* (searchMany with offset and cursor pagination, the paginator codec of   *)
(* OnesyMongo.createPaginator) and the connection manager Mongo in its two *)
(* revisions (the retry-loop revision of src/src/Mongo.ts and the          *)
(* reconnect-timer revision of src/src/OnesyMongo.ts).                     *)
(*                                                                         *)
(* JavaScript values are encoded as follows.  An optional value (one that  *)
(* may be undefined) is a sequence of length 0 or 1: <<>> is undefined and *)
(* <<v>> is the value v.  An object is a TLA+ record.  A mapping whose key *)
(* order matters (a decoded cursor) is a sequence of entries.  Sort        *)
(* directions are the strings "1" and "-1".                                *)
(***************************************************************************)
EXTENDS Integers, Sequences, FiniteSets, Bags, TLC

\* ---------------------------------------------------------------------
\* Bounds of the search model
\* ---------------------------------------------------------------------
MaxRecords == 5
MaxLimit == 2
MaxSkip == 3
MaxCalls == 3
MaxKey == 2          \* sort-key values of the records a cursor is made from
MaxCursorDocs == 2   \* records of the data set a cursor is matched against
MaxProperties == 2   \* length of the properties list of createPaginator

VARIABLES
  docs,        \* the documents of the collection, in insertion order
  querySort,   \* query.sort of the session: <<>> or <<sort mapping>>
  queryLimit,  \* query.limit of the session
  pages,       \* the searchMany calls made so far: query, pipeline, batch, response
  paginator,   \* the last createPaginator call: its arguments and the string returned
  static,      \* BaseCollection.defaults, the class-level defaults
  instance     \* this.defaults, the defaults of the collection instance

searchVars == <<docs, querySort, queryLimit, pages, paginator, static, instance>>

\* ---------------------------------------------------------------------
\* State of the collection operations
\* ---------------------------------------------------------------------
\* the cap on counted records that the search in the small can reach
MaxLimitCount == 3

VARIABLES
  limitCount,  \* Mongo.defaults.limitCount, a static that can be reassigned
  found,       \* the searchOne call made: <<>> or <<its inputs and the record returned>>
  ops,         \* the collection operations called so far, each with its position
  server,      \* the manager and the database as the operations see them
  tx           \* the transaction call: its position, its local variables, its attempts

collectionVars == <<limitCount, found, ops, server, tx>>

\* the largest number given as options.retries
MaxRetries == 3

\* the operations that may run at the same time
MaxOps == 2

\* the value Mongo.defaults.limitCount is declared with
limitCountDefault == 1000

\* ---------------------------------------------------------------------
\* Bounds of the connection model
\* ---------------------------------------------------------------------
MaxTasks == 2             \* flows in progress and promises handed to callers, together
MaxAttempts == 3          \* MongoClient.connect calls issued
MaxTransport == 1         \* 'close' / 'error' / 'reconnect' events the driver reports
MaxIndexes == 1           \* index declarations in options.indexes
MaxReconnectOption == 1   \* values of options.maxReconnectAttempts

VARIABLES
  revision,    \* the revision of class Mongo: "loop" (Mongo.ts) or "timer" (OnesyMongo.ts)
  options,     \* the options of the Mongo instance: name, maxReconnectAttempts, indexes
  mongo,       \* the fields of the Mongo instance
  tasks,       \* the bag of asynchronous flows, each with its position and its promise
  clients,     \* number of driver clients created; client c has the listeners of its connect()
  closed,      \* the driver clients on which close() has completed
  emitted,     \* the events the last step delivered to the subscribers
  attempts,    \* MongoClient.connect calls issued so far
  transport,   \* transport events reported so far
  last,        \* the operation the last step belongs to
  reconnects,  \* history: reconnect() calls since the connection was last requested or established
  explicit,    \* history: disconnect was called on a connected manager, no connection request since
  dropped      \* dropDatabase calls the server has carried out

mongoVars == <<revision, options, mongo, tasks, clients, closed, emitted, attempts, transport,
               last, reconnects, explicit, dropped>>

vars == <<limitCount, found, ops, server, tx, docs, querySort, queryLimit, pages, paginator, static, instance, revision, options, mongo, tasks, clients, closed,
          emitted, attempts, transport, last, reconnects, explicit, dropped>>

\* options.name, the name of the database, as its characters
DatabaseName == <<"a", "b">>

\* mongoOptionsDefault.maxReconnectAttempts
maxReconnectAttemptsDefault == 10

\* the fields of a new Mongo instance
MongoFields ==
  [connected |-> FALSE, client |-> <<>>, db |-> <<>>, collections |-> <<>>,
   indexed |-> FALSE, retrying |-> FALSE,
   reconnectAttempts |-> 0, reconnectTimeout |-> FALSE, isExplicitDisconnect |-> FALSE]

\* ---------------------------------------------------------------------
\* BaseCollection.transaction
\* ---------------------------------------------------------------------
\* the default of options.retries
retriesDefault == 5

\* no transaction has been called
NoTransaction ==
  [pc |-> "idle", retriesTotal |-> 0, retries |-> 0, codeName |-> "undefined",
   error |-> <<>>, response |-> <<>>, results |-> <<>>, sessions |-> 0, ended |-> 0,
   waits |-> 0, outcome |-> "pending", thrown |-> "none"]

\* ---------------------------------------------------------------------
\* BaseCollection: sort defaults
\* ---------------------------------------------------------------------
sortProperty == "added_at"

sortAscending == "-1"

this_sort == [added_at |-> sortAscending]

\* ---------------------------------------------------------------------
\* OnesyMongo.createPaginator and the cursor codec
\* ---------------------------------------------------------------------
\* the sort values createPaginator treats as descending
DescendingValues == {"dsc", "descending", "-1"}

\* getObjectValue(object, property): <<>> when the property is undefined
getObjectValue(object, property) ==
  IF property \in DOMAIN object THEN <<object[property]>> ELSE <<>>

\* paginatorValue, had the operator not looked at the sort
RECURSIVE paginatorValueAscending(_, _, _, _)
paginatorValueAscending(object, properties, sort, type) ==
  IF properties = <<>> THEN <<>>
  ELSE LET property == Head(properties)
           value_ == getObjectValue(object, property)
           rest == paginatorValueAscending(object, Tail(properties), sort, type)
           others == SelectSeq(rest, LAMBDA e : e.property # property)
       IN IF value_ # <<>>
          THEN <<[property |-> property, operator |-> IF type = "next" THEN "$gt" ELSE "$lt",
                  value |-> value_[1]]>> \o others
          ELSE rest

\* the object createPaginator builds, as its entries in key order
RECURSIVE paginatorValue(_, _, _, _)
paginatorValue(object, properties, sort, type) ==
  IF properties = <<>> THEN <<>>
  ELSE LET property == Head(properties)
           value_ == getObjectValue(object, property)
           rest == paginatorValue(object, Tail(properties), sort, type)
           \* value[property] = ... replaces an entry the object already has
           others == SelectSeq(rest, LAMBDA e : e.property # property)
       IN IF value_ # <<>>
          THEN LET descending == property \in DOMAIN sort /\ sort[property] \in DescendingValues
                   operator == IF descending
                               THEN (IF type = "next" THEN "$lt" ELSE "$gt")
                               ELSE (IF type = "next" THEN "$gt" ELSE "$lt")
               IN <<[property |-> property, operator |-> operator, value |-> value_[1]]>> \o others
          ELSE rest

\* encode(value): the mapping serialized to a flat token string,
\* property, operator, value for every entry in key order
RECURSIVE encode(_)
encode(value) ==
  IF value = <<>> THEN <<>>
  ELSE <<Head(value).property, Head(value).operator, Head(value).value>> \o encode(Tail(value))

\* the decoding the Query model applies to a next / previous string
RECURSIVE decode(_)
decode(string) ==
  IF Len(string) < 3 THEN <<>>
  ELSE <<[property |-> string[1], operator |-> string[2], value |-> string[3]]>>
       \o decode(SubSeq(string, 4, Len(string)))

createPaginator(object, properties, sort, type) ==
  encode(paginatorValue(object, properties, sort, type))

\* ---------------------------------------------------------------------
\* The aggregation stages searchMany uses, as the driver executes them
\* ---------------------------------------------------------------------
Compare(operator, a, b) ==
  CASE operator = "$gt" -> a > b
    [] operator = "$lt" -> a < b
    [] OTHER -> FALSE

\* a document satisfies every entry of a cursor mapping
Matches(doc, mapping) ==
  \A i \in 1..Len(mapping) :
    /\ mapping[i].property \in DOMAIN doc
    /\ Compare(mapping[i].operator, doc[mapping[i].property], mapping[i].value)

\* getMongoMatch([cursor]): one $match stage for the cursor mapping
getMongoMatch(mapping) == <<[op |-> "$match", arg |-> mapping]>>

RECURSIVE MatchStage(_, _)
MatchStage(s, mapping) ==
  IF s = <<>> THEN <<>>
  ELSE (IF Matches(Head(s), mapping) THEN <<Head(s)>> ELSE <<>>) \o MatchStage(Tail(s), mapping)

\* the sort directions the driver takes as descending and as ascending
DriverDescending == {"-1", "desc", "descending"}

DriverAscending == {"1", "asc", "ascending"}

\* r sorts before h under {field: dir}; ties keep the input order
Before(r, h, field, dir) ==
  IF dir \in DriverDescending THEN r[field] >= h[field] ELSE r[field] <= h[field]

RECURSIVE Insert(_, _, _, _)
Insert(r, s, field, dir) ==
  IF s = <<>> THEN <<r>>
  ELSE IF Before(r, Head(s), field, dir) THEN <<r>> \o s
  ELSE <<Head(s)>> \o Insert(r, Tail(s), field, dir)

RECURSIVE SortStage(_, _)
SortStage(s, sort) ==
  IF s = <<>> \/ DOMAIN sort = {} THEN s
  ELSE LET field == CHOOSE f \in DOMAIN sort : TRUE
       IN Insert(Head(s), SortStage(Tail(s), sort), field, sort[field])

SkipStage(s, n) == SubSeq(s, n + 1, Len(s))

LimitStage(s, n) == SubSeq(s, 1, IF n < Len(s) THEN n ELSE Len(s))

\* collection.aggregate(pipeline).toArray()
RECURSIVE aggregate(_, _)
aggregate(pipeline, s) ==
  IF pipeline = <<>> THEN s
  ELSE LET stage == Head(pipeline)
           out == CASE stage.op = "$match" -> MatchStage(s, stage.arg)
                    [] stage.op = "$sort" -> SortStage(s, stage.arg)
                    [] stage.op = "$skip" -> SkipStage(s, stage.arg)
                    [] stage.op = "$limit" -> LimitStage(s, stage.arg)
                    [] OTHER -> s
       IN aggregate(Tail(pipeline), out)

\* Array.prototype.slice(from, to)
slice(s, from, to) ==
  SubSeq(s, from + 1, IF to < Len(s) THEN to ELSE Len(s))

\* ---------------------------------------------------------------------
\* BaseCollection.getDefaults
\* ---------------------------------------------------------------------
\* the stage lists of a defaults object: query, queryArray and the method's
\* entry, each <<>> when it is not an array
Defaults(query, queryArray, method) ==
  [query |-> query, queryArray |-> queryArray, method |-> method]

NoDefaults == Defaults(<<>>, <<>>, <<>>)

\* the local variable value of getDefaults for 'aggregate', 'searchMany'
\* and 'searchOne': the class-level arrays, then the instance-level ones
getDefaultsValue(static_, instance_) ==
  static_.query \o static_.queryArray \o static_.method
  \o instance_.query \o instance_.queryArray \o instance_.method

\* getDefaults(method): the function ends without a return statement, its
\* result is undefined whatever value holds
getDefaults(static_, instance_) ==
  LET value == getDefaultsValue(static_, instance_)
  IN <<>>

\* ---------------------------------------------------------------------
\* BaseCollection.searchMany
\* ---------------------------------------------------------------------
\* the default of options.limit
optionsLimit == 15

\* a structured query (isOnesyQuery): sort, limit, skip, next, previous, each
\* <<>> when undefined; its other parts are empty
Query(sort, limit, skip, next, previous) ==
  [onesy |-> TRUE, query |-> <<>>, sort |-> sort, limit |-> limit, skip |-> skip,
   next |-> next, previous |-> previous, projection |-> <<>>,
   search |-> <<>>, api |-> <<>>, permissions |-> <<>>, aggregate |-> <<>>,
   total |-> FALSE]

\* a raw pipeline passed as the query: an array has none of the properties
RawQuery(stages) ==
  [Query(<<>>, <<>>, <<>>, <<>>, <<>>) EXCEPT !.onesy = FALSE, !.query = stages]

Options(sort, limit, skip, next, previous, projection) ==
  [sort |-> sort, limit |-> limit, skip |-> skip, next |-> next, previous |-> previous,
   projection |-> projection, total |-> FALSE]

NoOptions == Options(<<>>, <<>>, <<>>, <<>>, <<>>, <<>>)

Additional(pre, prePagination, post) ==
  [pre |-> pre, prePagination |-> prePagination, post |-> post]

NoAdditional == Additional(<<>>, <<>>, <<>>)

\* BaseCollection.isOnesyQuery(query) ? query : options
searchSource(query, options_) == IF query.onesy THEN query ELSE options_

\* the stages of one group, each marked with the group it comes from
From(stages, group) ==
  [i \in DOMAIN stages |-> [op |-> stages[i].op, arg |-> stages[i].arg, from |-> group]]

searchProjection(query, options_) == searchSource(query, options_).projection

searchSort(query, options_) ==
  LET sort == searchSource(query, options_).sort
  IN IF sort # <<>> THEN sort[1] ELSE this_sort

\* limit = optionsLimit, optionsLimit = 15
searchLimit(query, options_) ==
  LET limit == searchSource(query, options_).limit
  IN IF limit # <<>> THEN limit[1]
     ELSE IF options_.limit # <<>> THEN options_.limit[1] ELSE optionsLimit

\* skip = optionsSkip
searchSkip(query, options_) ==
  LET skip == searchSource(query, options_).skip
  IN IF skip # <<>> THEN skip ELSE options_.skip

searchNext(query, options_) == searchSource(query, options_).next

searchPrevious(query, options_) == searchSource(query, options_).previous

hasPaginator(query, options_) ==
  searchNext(query, options_) # <<>> \/ searchPrevious(query, options_) # <<>>

paginatorProperty(query, options_) ==
  LET next == searchNext(query, options_)
      previous == searchPrevious(query, options_)
      mapping == IF next # <<>> THEN next[1]
                 ELSE IF previous # <<>> THEN previous[1] ELSE <<>>
  IN IF mapping = <<>> THEN <<>> ELSE <<mapping[1].property>>

\* paginatorSort, had it sorted in ascending order for a next cursor too
paginatorSortAscending(query, options_) ==
  LET dir == "1"
      property == paginatorProperty(query, options_)
  IN IF property = <<>> THEN <<[op |-> "$sort", arg |-> <<>>]>>
     ELSE <<[op |-> "$sort", arg |-> [p \in {property[1]} |-> dir]]>>

\* the stage { $sort: { [paginatorProperty]: next ? -1 : 1 } }
paginatorSort(query, options_) ==
  LET dir == IF searchNext(query, options_) # <<>> THEN "-1" ELSE "1"
      property == paginatorProperty(query, options_)
  IN IF property = <<>> THEN <<[op |-> "$sort", arg |-> <<>>]>>
     ELSE <<[op |-> "$sort", arg |-> [p \in {property[1]} |-> dir]]>>

\* skipStage, had it not looked at hasPaginator
skipStageAlways(query, options_) ==
  IF query.skip # <<>>
  THEN <<[op |-> "$skip", arg |-> searchSkip(query, options_)[1]]>>
  ELSE <<>>

\* (query?.skip !== undefined && !hasPaginator) ? [{ $skip: skip }] : []
skipStage(query, options_) ==
  IF query.skip # <<>> /\ ~hasPaginator(query, options_)
  THEN <<[op |-> "$skip", arg |-> searchSkip(query, options_)[1]]>>
  ELSE <<>>

limitStage(query, options_) ==
  <<[op |-> "$limit", arg |-> searchLimit(query, options_) + 1]>>

\* the filter and caller stages ahead of the pagination
queryMongo(query, additional, defaults) ==
  From(IF defaults # <<>> THEN defaults[1] ELSE <<>>, "defaults")
  \o From(query.query, "query")
  \o From(additional.pre, "pre")
  \o From(IF query.onesy THEN query.aggregate ELSE <<>>, "aggregate")
  \o From(IF query.onesy /\ query.search # <<>> THEN getMongoMatch(query.search) ELSE <<>>,
          "search")
  \o From(IF query.onesy /\ query.api # <<>> THEN getMongoMatch(query.api) ELSE <<>>, "api")
  \o From(IF query.onesy /\ query.permissions # <<>> THEN getMongoMatch(query.permissions)
          ELSE <<>>, "permissions")
  \o From(additional.prePagination, "prePagination")

searchPipeline(query, additional, options_, defaults) ==
  LET sort == searchSort(query, options_)
      next == searchNext(query, options_)
      previous == searchPrevious(query, options_)
      paginated == hasPaginator(query, options_)
      projection == searchProjection(query, options_)
  IN queryMongo(query, additional, defaults)
     \o From(IF next # <<>> THEN getMongoMatch(next[1]) ELSE <<>>, "next")
     \o From(IF previous # <<>> THEN getMongoMatch(previous[1]) ELSE <<>>, "previous")
     \o From(IF paginated THEN paginatorSort(query, options_) ELSE <<>>, "sort")
     \o From(IF ~paginated THEN <<[op |-> "$sort", arg |-> sort]>> ELSE <<>>, "sort")
     \o From(skipStage(query, options_), "skip")
     \o From(limitStage(query, options_), "limit")
     \o From(IF paginated THEN <<[op |-> "$sort", arg |-> sort]>> ELSE <<>>, "sort")
     \o From(IF projection # <<>> THEN <<[op |-> "$project", arg |-> projection[1]]>> ELSE <<>>,
             "projection")
     \o From(additional.post, "post")

\* searchObjects, had the slice kept the whole fetched batch
searchObjectsWhole(query, options_, response_) ==
  LET limit == searchLimit(query, options_)
  IN IF ~hasPaginator(query, options_) \/ searchNext(query, options_) # <<>>
        \/ Len(response_) <= limit
     THEN slice(response_, 0, limit + 1)
     ELSE slice(response_, 0, limit + 1)

\* the page cut out of the fetched batch
searchObjects(query, options_, response_) ==
  LET limit == searchLimit(query, options_)
  IN IF ~hasPaginator(query, options_) \/ searchNext(query, options_) # <<>>
        \/ Len(response_) <= limit
     THEN slice(response_, 0, limit)
     ELSE slice(response_, 1, limit + 1)

\* searchHasNext, had the comparison been >= instead of >
searchHasNextOrEqual(query, options_, response_, objects) ==
  searchPrevious(query, options_) # <<>> \/ Len(response_) >= Len(objects)

\* the truth value of response.hasNext
searchHasNext(query, options_, response_, objects) ==
  searchPrevious(query, options_) # <<>> \/ Len(response_) > Len(objects)

\* the truth value of response.hasPrevious
searchHasPrevious(query, options_, response_, objects) ==
  IF ~hasPaginator(query, options_)
  THEN query.skip # <<>> /\ query.skip[1] > 0
  ELSE searchNext(query, options_) # <<>> \/ Len(response_) > Len(objects)

\* BaseCollection.isOnesyQuery(query) ? query.total : optionsTotal
searchTotal(query, options_) == searchSource(query, options_).total

\* the stage { $group: { _id: null, count: { $sum: 1 } } }: one document
\* with the number of its inputs, none when there is no input
GroupCount(s) == IF s = <<>> THEN <<>> ELSE <<[count |-> Len(s)]>>

\* the pipeline of the count ahead of its $group stage
totalPipeline(query, additional, defaults) ==
  queryMongo(query, additional, defaults)
  \o From(<<[op |-> "$limit", arg |-> limitCount]>>, "limitCount")

\* response.total: <<>> when the total is not requested
searchManyTotal(query, additional, options_, defaults, collection) ==
  IF searchTotal(query, options_)
  THEN LET total_ == GroupCount(aggregate(totalPipeline(query, additional, defaults),
                                          collection))
       IN IF total_ # <<>> /\ total_[1].count # 0 THEN <<total_[1].count>> ELSE <<0>>
  ELSE <<>>

searchMany(query, additional, options_, defaults, collection) ==
  LET sort == searchSort(query, options_)
      pipeline == searchPipeline(query, additional, options_, defaults)
      response_ == aggregate(pipeline, collection)
      objects == searchObjects(query, options_, response_)
  IN [query |-> query,
      additional |-> additional,
      options |-> options_,
      pipeline |-> pipeline,
      batch |-> response_,
      response |-> objects,
      sort |-> sort,
      skip |-> searchSkip(query, options_),
      limit |-> searchLimit(query, options_),
      total |-> searchManyTotal(query, additional, options_, defaults, collection),
      hasNext |-> searchHasNext(query, options_, response_, objects),
      hasPrevious |-> searchHasPrevious(query, options_, response_, objects),
      next |-> IF objects # <<>>
               THEN <<createPaginator(objects[Len(objects)], <<sortProperty>>, sort, "next")>>
               ELSE <<>>,
      previous |-> IF objects # <<>>
                   THEN <<createPaginator(objects[1], <<sortProperty>>, sort, "previous")>>
                   ELSE <<>>]

\* ---------------------------------------------------------------------
\* A paging session: one caller issuing searchMany calls with a fixed
\* sort and limit, following the cursors of the page it got last
\* ---------------------------------------------------------------------
SortInputs == {<<>>, <<[added_at |-> "1"]>>, <<[added_at |-> "-1"]>>}

SearchInit ==
  /\ \E n \in 0..MaxRecords : docs = [i \in 1..n |-> [added_at |-> i]]
  /\ querySort \in SortInputs
  /\ queryLimit \in 1..MaxLimit
  /\ pages = <<>>
  /\ paginator = <<>>
  /\ static = NoDefaults
  /\ instance = NoDefaults
  /\ revision = "loop"
  /\ options = [name |-> DatabaseName, maxReconnectAttempts |-> maxReconnectAttemptsDefault,
                indexes |-> 0]
  /\ mongo = MongoFields
  /\ tasks = EmptyBag
  /\ clients = 0
  /\ closed = {}
  /\ emitted = <<>>
  /\ attempts = 0
  /\ transport = 0
  /\ last = "new"
  /\ reconnects = 0
  /\ explicit = FALSE
  /\ dropped = 0
  /\ limitCount = limitCountDefault
  /\ found = <<>>
  /\ ops = <<>>
  /\ server = [connected |-> TRUE, exists |-> TRUE, cache |-> 1, creates |-> 0]
  /\ tx = NoTransaction

\* searchMany in offset mode, with or without a skip
SearchOffset ==
  /\ Len(pages) < MaxCalls
  /\ \E skip \in {<<>>} \cup {<<k>> : k \in 0..MaxSkip} :
       pages' = Append(pages, searchMany(Query(querySort, <<queryLimit>>, skip, <<>>, <<>>),
                                          NoAdditional, NoOptions,
                                          getDefaults(static, instance), docs))
  /\ UNCHANGED <<docs, querySort, queryLimit, paginator, static, instance>>
  /\ UNCHANGED mongoVars
  /\ UNCHANGED collectionVars

\* searchMany with the next cursor of the last page
SearchNext ==
  /\ Len(pages) < MaxCalls
  /\ pages # <<>>
  /\ pages[Len(pages)].next # <<>>
  /\ pages' = Append(pages, searchMany(
        Query(querySort, <<queryLimit>>, <<>>, <<decode(pages[Len(pages)].next[1])>>, <<>>),
        NoAdditional, NoOptions, getDefaults(static, instance), docs))
  /\ UNCHANGED <<docs, querySort, queryLimit, paginator, static, instance>>
  /\ UNCHANGED mongoVars
  /\ UNCHANGED collectionVars

\* searchMany with the previous cursor of the last page
SearchPrevious ==
  /\ Len(pages) < MaxCalls
  /\ pages # <<>>
  /\ pages[Len(pages)].previous # <<>>
  /\ pages' = Append(pages, searchMany(
        Query(querySort, <<queryLimit>>, <<>>, <<>>, <<decode(pages[Len(pages)].previous[1])>>),
        NoAdditional, NoOptions, getDefaults(static, instance), docs))
  /\ UNCHANGED <<docs, querySort, queryLimit, paginator, static, instance>>
  /\ UNCHANGED mongoVars
  /\ UNCHANGED collectionVars

\* ---------------------------------------------------------------------
\* searchMany called once with any combination of its inputs, on a
\* collection of MaxRecords records
\* ---------------------------------------------------------------------
\* a stage supplied by the caller or by a defaults object
CallerStage(name) == [op |-> "$addFields", arg |-> name]

\* the condition list of one filter group; every record satisfies it
Conditions == <<[property |-> sortProperty, operator |-> "$gt", value |-> 0]>>

\* a stage that filters: { $match: { added_at: { $gt: v } } }
FilterStage(v) ==
  [op |-> "$match", arg |-> <<[property |-> sortProperty, operator |-> "$gt", value |-> v]>>]

\* a condition list of a filter group that filters the same way
FilterConditions(v) == <<[property |-> sortProperty, operator |-> "$gt", value |-> v]>>

\* the defaults objects: none, or one with its three arrays
DefaultsInputs(name) ==
  {NoDefaults,
   Defaults(<<CallerStage(name)>>, <<CallerStage(name)>>, <<CallerStage(name)>>)}

\* a cursor made by createPaginator from record k of the collection,
\* decoded by the Query model
CursorOf(k, sort, type) ==
  <<decode(createPaginator(docs[k], <<sortProperty>>,
                           IF sort # <<>> THEN sort[1] ELSE this_sort, type))>>

PipelineInit ==
  /\ docs = [i \in 1..MaxRecords |-> [added_at |-> i]]
  /\ querySort = <<>>
  /\ queryLimit = 1
  /\ pages = <<>>
  /\ paginator = <<>>
  /\ static \in DefaultsInputs("static")
  /\ instance \in DefaultsInputs("instance")
  /\ revision = "loop"
  /\ options = [name |-> DatabaseName, maxReconnectAttempts |-> maxReconnectAttemptsDefault,
                indexes |-> 0]
  /\ mongo = MongoFields
  /\ tasks = EmptyBag
  /\ clients = 0
  /\ closed = {}
  /\ emitted = <<>>
  /\ attempts = 0
  /\ transport = 0
  /\ last = "new"
  /\ reconnects = 0
  /\ explicit = FALSE
  /\ dropped = 0
  /\ limitCount = limitCountDefault
  /\ found = <<>>
  /\ ops = <<>>
  /\ server = [connected |-> TRUE, exists |-> TRUE, cache |-> 1, creates |-> 0]
  /\ tx = NoTransaction

\* the pagination inputs, read from the query when it is a structured
\* query and from the options when it is a raw pipeline
PaginationInputs ==
  UNION {{Options(sort, limit, skip, next, previous, projection) :
            limit \in {<<>>, <<1>>},
            skip \in {<<>>, <<0>>, <<2>>},
            next \in {<<>>} \cup {CursorOf(MaxRecords - 1, sort, "next")},
            previous \in {<<>>} \cup {CursorOf(k, sort, "previous") : k \in {1, MaxRecords - 1}},
            projection \in {<<>>, <<"projection">>}} :
         sort \in {<<>>, <<[added_at |-> "1"]>>}}

AdditionalInputs ==
  {Additional(pre, prePagination, post) :
     pre \in {<<>>, <<CallerStage("pre")>>},
     prePagination \in {<<>>, <<CallerStage("prePagination")>>},
     post \in {<<>>, <<CallerStage("post")>>}}

\* searchMany(query, additional, options) with a structured query
SearchManyQuery ==
  /\ pages = <<>>
  /\ \E in \in PaginationInputs, additional \in AdditionalInputs,
        stages \in {<<>>, <<CallerStage("query")>>},
        filters \in SUBSET {"aggregate", "search", "api", "permissions"},
        optionsSkip \in {<<>>, <<1>>} :
       LET query == [Query(in.sort, in.limit, in.skip, in.next, in.previous) EXCEPT
                       !.query = stages,
                       !.projection = in.projection,
                       !.aggregate = IF "aggregate" \in filters
                                     THEN <<CallerStage("aggregate")>> ELSE <<>>,
                       !.search = IF "search" \in filters THEN Conditions ELSE <<>>,
                       !.api = IF "api" \in filters THEN Conditions ELSE <<>>,
                       !.permissions = IF "permissions" \in filters THEN Conditions ELSE <<>>]
       IN pages' = <<searchMany(query, additional, [NoOptions EXCEPT !.skip = optionsSkip],
                                getDefaults(static, instance), docs)>>
  /\ UNCHANGED <<docs, querySort, queryLimit, paginator, static, instance>>
  /\ UNCHANGED mongoVars
  /\ UNCHANGED collectionVars

\* searchMany(query, additional, options) with a raw pipeline
SearchManyRaw ==
  /\ pages = <<>>
  /\ \E in \in PaginationInputs, additional \in AdditionalInputs,
        stages \in {<<>>, <<CallerStage("query")>>} :
       pages' = <<searchMany(RawQuery(stages), additional, in,
                             getDefaults(static, instance), docs)>>
  /\ UNCHANGED <<docs, querySort, queryLimit, paginator, static, instance>>
  /\ UNCHANGED mongoVars
  /\ UNCHANGED collectionVars

\* ---------------------------------------------------------------------
\* BaseCollection.searchOne
\* ---------------------------------------------------------------------
\* const limit = 1
searchOneLimit == 1

searchOnePipeline(query, additional, options_, defaults) ==
  LET projection == searchProjection(query, options_)
  IN From(IF defaults # <<>> THEN defaults[1] ELSE <<>>, "defaults")
     \o From(query.query, "query")
     \o From(additional.pre, "pre")
     \o From(IF query.onesy THEN query.aggregate ELSE <<>>, "aggregate")
     \o From(IF query.onesy /\ query.search # <<>> THEN getMongoMatch(query.search) ELSE <<>>,
             "search")
     \o From(IF query.onesy /\ query.api # <<>> THEN getMongoMatch(query.api) ELSE <<>>, "api")
     \o From(IF query.onesy /\ query.permissions # <<>> THEN getMongoMatch(query.permissions)
             ELSE <<>>, "permissions")
     \o From(<<[op |-> "$limit", arg |-> searchOneLimit]>>, "limit")
     \o From(IF projection # <<>> THEN <<[op |-> "$project", arg |-> projection[1]]>> ELSE <<>>,
             "projection")
     \o From(additional.post, "post")

\* response[0] of the aggregation: <<>> when it is undefined
searchOne(query, additional, options_, defaults, collection) ==
  LET pipeline == searchOnePipeline(query, additional, options_, defaults)
      response == aggregate(pipeline, collection)
  IN [query |-> query,
      additional |-> additional,
      options |-> options_,
      pipeline |-> pipeline,
      response |-> IF response # <<>> THEN <<response[1]>> ELSE <<>>]

\* ---------------------------------------------------------------------
\* searchMany with limit 1 and then searchOne with the same query, pre and
\* post stages, on collections of 0..MaxRecords records
\* ---------------------------------------------------------------------
Reverse(s) == [i \in DOMAIN s |-> s[Len(s) + 1 - i]]

\* the orders in which a pipeline without a $sort stage is handed the
\* documents: the driver leaves it unspecified; insertion order and its
\* reverse are taken
NaturalOrders(collection) == {collection, Reverse(collection)}

OneInit ==
  /\ \E n \in 0..MaxRecords : docs = [i \in 1..n |-> [added_at |-> i]]
  /\ querySort \in {<<>>, <<[added_at |-> "1"]>>}
  /\ queryLimit = searchOneLimit
  /\ pages = <<>>
  /\ paginator = <<>>
  /\ static = NoDefaults
  /\ instance = NoDefaults
  /\ revision = "loop"
  /\ options = [name |-> DatabaseName, maxReconnectAttempts |-> maxReconnectAttemptsDefault,
                indexes |-> 0]
  /\ mongo = MongoFields
  /\ tasks = EmptyBag
  /\ clients = 0
  /\ closed = {}
  /\ emitted = <<>>
  /\ attempts = 0
  /\ transport = 0
  /\ last = "new"
  /\ reconnects = 0
  /\ explicit = FALSE
  /\ dropped = 0
  /\ limitCount = limitCountDefault
  /\ found = <<>>
  /\ ops = <<>>
  /\ server = [connected |-> TRUE, exists |-> TRUE, cache |-> 1, creates |-> 0]
  /\ tx = NoTransaction

OneAdditionalInputs ==
  {Additional(pre, <<>>, post) :
     pre \in {<<>>, <<FilterStage(1)>>},
     post \in {<<>>, <<CallerStage("post")>>}}

\* searchMany with limit 1 and a structured query
SearchManyLimitOneQuery ==
  /\ pages = <<>>
  /\ \E additional \in OneAdditionalInputs,
        search \in {<<>>, FilterConditions(2), FilterConditions(MaxRecords)} :
       LET query == [Query(querySort, <<queryLimit>>, <<>>, <<>>, <<>>) EXCEPT
                       !.search = search]
       IN pages' = <<searchMany(query, additional, NoOptions,
                                getDefaults(static, instance), docs)>>
  /\ UNCHANGED <<docs, querySort, queryLimit, paginator, static, instance>>
  /\ UNCHANGED mongoVars
  /\ UNCHANGED collectionVars

\* searchMany with limit 1 and a raw pipeline
SearchManyLimitOneRaw ==
  /\ pages = <<>>
  /\ \E additional \in OneAdditionalInputs,
        stages \in {<<>>, <<FilterStage(2)>>, <<FilterStage(MaxRecords)>>} :
       pages' = <<searchMany(RawQuery(stages), additional,
                             Options(querySort, <<queryLimit>>, <<>>, <<>>, <<>>, <<>>),
                             getDefaults(static, instance), docs)>>
  /\ UNCHANGED <<docs, querySort, queryLimit, paginator, static, instance>>
  /\ UNCHANGED mongoVars
  /\ UNCHANGED collectionVars

\* searchOne with the query, the pre and post stages and the options of
\* the searchMany call made before
SearchOneSame ==
  /\ pages # <<>>
  /\ found = <<>>
  /\ \E order \in NaturalOrders(docs) :
       found' = <<searchOne(pages[1].query, pages[1].additional, pages[1].options,
                            getDefaults(static, instance), order)>>
  /\ UNCHANGED <<limitCount, ops, server, tx>>
  /\ UNCHANGED searchVars
  /\ UNCHANGED mongoVars

\* ---------------------------------------------------------------------
\* searchMany with the total requested, on collections of 0..MaxRecords
\* records and with Mongo.defaults.limitCount below and above their number
\* ---------------------------------------------------------------------
\* a cursor made by createPaginator from a record, decoded by the Query model
CursorAt(record, sort, type) ==
  <<decode(createPaginator(record, <<sortProperty>>,
                           IF sort # <<>> THEN sort[1] ELSE this_sort, type))>>

TotalInit ==
  /\ \E n \in 0..MaxRecords : docs = [i \in 1..n |-> [added_at |-> i]]
  /\ querySort = <<>>
  /\ queryLimit = 1
  /\ pages = <<>>
  /\ paginator = <<>>
  /\ static \in {NoDefaults, Defaults(<<FilterStage(1)>>, <<>>, <<>>)}
  /\ instance \in {NoDefaults, Defaults(<<>>, <<>>, <<FilterStage(2)>>)}
  /\ revision = "loop"
  /\ options = [name |-> DatabaseName, maxReconnectAttempts |-> maxReconnectAttemptsDefault,
                indexes |-> 0]
  /\ mongo = MongoFields
  /\ tasks = EmptyBag
  /\ clients = 0
  /\ closed = {}
  /\ emitted = <<>>
  /\ attempts = 0
  /\ transport = 0
  /\ last = "new"
  /\ reconnects = 0
  /\ explicit = FALSE
  /\ dropped = 0
  /\ limitCount \in {MaxLimitCount, limitCountDefault}
  /\ found = <<>>
  /\ ops = <<>>
  /\ server = [connected |-> TRUE, exists |-> TRUE, cache |-> 1, creates |-> 0]
  /\ tx = NoTransaction

\* the pagination inputs of a call that may request the total
TotalInputs ==
  UNION {{[Options(sort, limit, skip, next, previous, <<>>) EXCEPT !.total = total] :
            limit \in {<<>>, <<1>>},
            skip \in {<<>>, <<1>>},
            next \in {<<>>} \cup {CursorAt([added_at |-> 2], sort, "next")},
            previous \in {<<>>} \cup {CursorAt([added_at |-> 2], sort, "previous")},
            total \in BOOLEAN} :
         sort \in {<<>>, <<[added_at |-> "1"]>>}}

\* searchMany(query) with a structured query that may have total: true
SearchManyTotalQuery ==
  /\ pages = <<>>
  /\ \E in \in TotalInputs,
        pre \in {<<>>, <<FilterStage(2)>>},
        search \in {<<>>, FilterConditions(1)},
        permissions \in {<<>>, FilterConditions(3)} :
       LET query == [Query(in.sort, in.limit, in.skip, in.next, in.previous) EXCEPT
                       !.search = search,
                       !.permissions = permissions,
                       !.total = in.total]
       IN pages' = <<searchMany(query, Additional(pre, <<>>, <<>>), NoOptions,
                                getDefaults(static, instance), docs)>>
  /\ UNCHANGED <<docs, querySort, queryLimit, paginator, static, instance>>
  /\ UNCHANGED mongoVars
  /\ UNCHANGED collectionVars

\* searchMany(pipeline, additional, options) with a raw pipeline and
\* options that may have total: true
SearchManyTotalRaw ==
  /\ pages = <<>>
  /\ \E in \in TotalInputs,
        stages \in {<<>>, <<FilterStage(1)>>},
        prePagination \in {<<>>, <<FilterStage(3)>>} :
       pages' = <<searchMany(RawQuery(stages), Additional(<<>>, prePagination, <<>>), in,
                             getDefaults(static, instance), docs)>>
  /\ UNCHANGED <<docs, querySort, queryLimit, paginator, static, instance>>
  /\ UNCHANGED mongoVars
  /\ UNCHANGED collectionVars

\* ---------------------------------------------------------------------
\* The collection operations of BaseCollection: collection(), the
\* validation of the arguments, the driver calls and response()
\* ---------------------------------------------------------------------
Methods ==
  {"count", "exists", "find", "findOne", "aggregate", "searchMany", "searchOne", "addOne",
   "addMany", "updateOne", "updateMany", "updateOneOrAdd", "removeOne", "removeMany",
   "bulkWrite"}

\* the operations that test their argument and throw when it is unfit
Validated == {"addOne", "addMany", "updateOne", "updateMany", "updateOneOrAdd", "bulkWrite"}

\* the number of driver calls of an operation whose calls all succeed:
\* find counts when the total is asked, searchMany also aggregates the
\* options and the total
DriverCalls(method) ==
  CASE method = "find" -> {1, 2}
    [] method = "searchMany" -> {1, 2, 3}
    [] OTHER -> {1}

\* an operation that was just called; valid tells whether its argument
\* passes the test of the operation
Operation(method, valid, planned) ==
  [method |-> method, valid |-> valid, planned |-> planned, pc |-> "db",
   outcome |-> "pending", error |-> "none", cause |-> "none",
   logs |-> 0, calls |-> 0, failures |-> 0, io |-> 0]

\* the catch block of an operation, had it issued the driver call again
catchRetry(op, cause) ==
  [op EXCEPT !.pc = "driver", !.cause = cause, !.calls = @ + 1, !.io = @ + 1]

\* the catch block of an operation: this.response(start, collection, method)
\* logs, then throw new OnesyMongoError(error)
catchError(op, cause) ==
  [op EXCEPT !.pc = "done", !.outcome = "rejected", !.error = "OnesyMongoError",
             !.cause = cause, !.logs = @ + 1]

\* the manager is connected or not, the collection exists in the database
\* or not; Mongo.collections holds what connect() has fetched
OperationInit ==
  /\ docs = <<>>
  /\ querySort = <<>>
  /\ queryLimit = 1
  /\ pages = <<>>
  /\ paginator = <<>>
  /\ static = NoDefaults
  /\ instance = NoDefaults
  /\ revision = "loop"
  /\ options = [name |-> DatabaseName, maxReconnectAttempts |-> maxReconnectAttemptsDefault,
                indexes |-> 0]
  /\ mongo = MongoFields
  /\ tasks = EmptyBag
  /\ clients = 0
  /\ closed = {}
  /\ emitted = <<>>
  /\ attempts = 0
  /\ transport = 0
  /\ last = "new"
  /\ reconnects = 0
  /\ explicit = FALSE
  /\ dropped = 0
  /\ limitCount = limitCountDefault
  /\ found = <<>>
  /\ ops = <<>>
  /\ \E connected \in BOOLEAN, exists \in BOOLEAN :
       server = [connected |-> connected, exists |-> exists,
                 cache |-> IF connected /\ exists THEN 1 ELSE 0, creates |-> 0]
  /\ tx = NoTransaction

\* an operation is called while no other operation runs
Call ==
  /\ ops = <<>>
  /\ \E method \in Methods, valid \in BOOLEAN, planned \in 1..3 :
       /\ ~valid => method \in Validated
       /\ planned \in DriverCalls(method)
       /\ ops' = Append(ops, Operation(method, valid, planned))
  /\ UNCHANGED <<server, limitCount, found, tx>>
  /\ UNCHANGED searchVars
  /\ UNCHANGED mongoVars

\* an operation is called, other operations of the collection may be running
CallConcurrent ==
  /\ Len(ops) < MaxOps
  /\ \E method \in {"count", "addMany"}, valid \in BOOLEAN :
       /\ ~valid => method \in Validated
       /\ ops' = Append(ops, Operation(method, valid, 1))
  /\ UNCHANGED <<server, limitCount, found, tx>>
  /\ UNCHANGED searchVars
  /\ UNCHANGED mongoVars

\* collection(): const db = await this.db. The connection getter connects
\* when the manager is not connected, and connect() fetches the list of
\* collections
CollectionDb(i) ==
  /\ ops[i].pc = "db"
  /\ IF server.connected
     THEN /\ ops' = [ops EXCEPT ![i].pc = "getCollections"]
          /\ UNCHANGED server
     ELSE /\ ops' = [ops EXCEPT ![i].pc = "getCollections", ![i].io = @ + 2]
          /\ server' = [server EXCEPT !.connected = TRUE,
                                      !.cache = IF server.exists THEN 1 ELSE 0]
  /\ UNCHANGED <<limitCount, found, tx>>
  /\ UNCHANGED searchVars
  /\ UNCHANGED mongoVars

\* collection(): await this.mongo.getCollections() returns Mongo.collections;
\* when the name is not in it, db.createCollection is requested
CollectionGetCollections(i) ==
  /\ ops[i].pc = "getCollections"
  /\ IF server.cache > 0
     THEN /\ ops' = [ops EXCEPT ![i].pc = "try"]
          /\ UNCHANGED server
     ELSE /\ ops' = [ops EXCEPT ![i].pc = "createCollection", ![i].io = @ + 1]
          /\ server' = [server EXCEPT !.creates = @ + 1]
  /\ UNCHANGED <<limitCount, found, tx>>
  /\ UNCHANGED searchVars
  /\ UNCHANGED mongoVars

\* collection(): db.createCollection has ended. When it succeeded the name
\* is pushed to Mongo.collections; when it failed the error leaves
\* collection() and the operation, ahead of the try block
CollectionCreateCollection(i, ok) ==
  /\ ops[i].pc = "createCollection"
  /\ IF ok
     THEN /\ ops' = [ops EXCEPT ![i].pc = "try"]
          /\ server' = [server EXCEPT !.exists = TRUE, !.cache = @ + 1]
     ELSE /\ ops' = [ops EXCEPT ![i].pc = "done", ![i].outcome = "rejected",
                                ![i].error = "MongoError", ![i].cause = "createCollection"]
          /\ UNCHANGED server
  /\ UNCHANGED <<limitCount, found, tx>>
  /\ UNCHANGED searchVars
  /\ UNCHANGED mongoVars

\* the try block up to the first driver call: the test of the argument
\* throws into the catch block, else the driver call is issued
OperationTry(i) ==
  /\ ops[i].pc = "try"
  /\ ops' = [ops EXCEPT ![i] =
               IF ops[i].method \in Validated /\ ~ops[i].valid
               THEN catchError(ops[i], "validation")
               ELSE [ops[i] EXCEPT !.pc = "driver", !.calls = @ + 1, !.io = @ + 1]]
  /\ UNCHANGED <<server, limitCount, found, tx>>
  /\ UNCHANGED searchVars
  /\ UNCHANGED mongoVars

\* a driver call of the operation has ended: the next call is issued, or
\* this.response(start, collection, method, response) logs and the
\* operation returns; a failure goes to the catch block
OperationDriver(i, ok) ==
  /\ ops[i].pc = "driver"
  /\ ops' = [ops EXCEPT ![i] =
               IF ~ok
               THEN catchError([ops[i] EXCEPT !.failures = @ + 1], "driver")
               ELSE IF ops[i].calls < ops[i].planned
               THEN [ops[i] EXCEPT !.calls = @ + 1, !.io = @ + 1]
               ELSE [ops[i] EXCEPT !.pc = "done", !.outcome = "resolved", !.logs = @ + 1]]
  /\ UNCHANGED <<server, limitCount, found, tx>>
  /\ UNCHANGED searchVars
  /\ UNCHANGED mongoVars

\* ---------------------------------------------------------------------
\* BaseCollection.transaction: the attempts
\* ---------------------------------------------------------------------
\* the ways an attempt ends: method returned and the commit went through,
\* or an error was thrown by method or by the commit: with codeName
\* 'WriteConflict', with it inside error.message, with another codeName,
\* with none
AttemptResults == {"ok", "WriteConflict", "message.WriteConflict", "DuplicateKey", "Error"}

\* error_.codeName || error_.message?.codeName
codeNameOf(result) ==
  CASE result \in {"WriteConflict", "message.WriteConflict"} -> "WriteConflict"
    [] result = "DuplicateKey" -> "DuplicateKey"
    [] OTHER -> "undefined"

\* the loop condition, had it not looked at codeName once an error is there
whileConditionAnyError(t) ==
  (t.codeName = "WriteConflict" \/ t.error # <<>>) /\ t.retries > 0

\* codeName === 'WriteConflict' && retries > 0
whileCondition(t) ==
  t.codeName = "WriteConflict" /\ t.retries > 0

TransactionInit ==
  /\ docs = <<>>
  /\ querySort = <<>>
  /\ queryLimit = 1
  /\ pages = <<>>
  /\ paginator = <<>>
  /\ static = NoDefaults
  /\ instance = NoDefaults
  /\ revision = "loop"
  /\ options = [name |-> DatabaseName, maxReconnectAttempts |-> maxReconnectAttemptsDefault,
                indexes |-> 0]
  /\ mongo = MongoFields
  /\ tasks = EmptyBag
  /\ clients = 0
  /\ closed = {}
  /\ emitted = <<>>
  /\ attempts = 0
  /\ transport = 0
  /\ last = "new"
  /\ reconnects = 0
  /\ explicit = FALSE
  /\ dropped = 0
  /\ limitCount = limitCountDefault
  /\ found = <<>>
  /\ ops = <<>>
  /\ server = [connected |-> TRUE, exists |-> TRUE, cache |-> 1, creates |-> 0]
  /\ tx = NoTransaction

\* transaction(method, options): options.retries is a number of
\* -1..MaxRetries, or not a number
Transaction ==
  /\ tx.pc = "idle"
  /\ \E retries \in {<<>>} \cup {<<n>> : n \in -1..MaxRetries} :
       LET retriesTotal == IF retries # <<>> THEN retries[1] ELSE retriesDefault
       IN tx' = [NoTransaction EXCEPT !.pc = "while", !.retriesTotal = retriesTotal,
                                      !.retries = retriesTotal,
                                      !.codeName = "WriteConflict"]
  /\ UNCHANGED <<limitCount, found, ops, server>>
  /\ UNCHANGED searchVars
  /\ UNCHANGED mongoVars

\* the loop test and, when it holds, the head of the body up to the call
\* of method in a new session; when it fails, the end of the function
TransactionWhile ==
  /\ tx.pc = "while"
  /\ tx' = IF whileCondition(tx)
           THEN [tx EXCEPT !.pc = "withTransaction", !.error = <<>>,
                           !.codeName = "undefined",
                           !.waits = IF tx.retries < tx.retriesTotal THEN @ + 1 ELSE @,
                           !.sessions = @ + 1]
           ELSE IF tx.error # <<>>
           THEN [tx EXCEPT !.pc = "done", !.outcome = "rejected", !.thrown = "DeveloperError"]
           ELSE [tx EXCEPT !.pc = "done", !.outcome = "resolved"]
  /\ UNCHANGED <<limitCount, found, ops, server>>
  /\ UNCHANGED searchVars
  /\ UNCHANGED mongoVars

\* session.withTransaction has ended: response holds what method returned
\* (it may have returned before the commit failed); the catch block keeps
\* the error and its codeName, the session is ended, retries--
TransactionAttempt(result, returned) ==
  /\ tx.pc = "withTransaction"
  /\ result = "ok" => returned
  /\ tx' = [tx EXCEPT !.pc = "while",
                      !.response = IF returned THEN <<tx.sessions>> ELSE @,
                      !.error = IF result = "ok" THEN @ ELSE <<result>>,
                      !.codeName = IF result = "ok" THEN @ ELSE codeNameOf(result),
                      !.results = Append(@, result),
                      !.ended = @ + 1,
                      !.retries = @ - 1]
  /\ UNCHANGED <<limitCount, found, ops, server>>
  /\ UNCHANGED searchVars
  /\ UNCHANGED mongoVars

\* ---------------------------------------------------------------------
\* createPaginator called on its own: a data set, a sort, and cursors made
\* from records of the data set or from other objects
\* ---------------------------------------------------------------------
CursorProperties == {"added_at", "b"}

\* the values of mongodb.Sort for one field, and 'dsc'
SortDirections == DriverAscending \cup DriverDescending \cup {"dsc"}

\* the sort argument: omitted, or a direction for some of the fields
CursorSorts ==
  {<<>>} \cup {<<sort>> : sort \in UNION {[F -> SortDirections] : F \in SUBSET {sortProperty}}}
        \cup {<<sort>> : sort \in [CursorProperties -> {"1", "-1"}]}

\* objects with some of the fields defined
CursorObjects ==
  UNION {[F -> 1..MaxKey] : F \in SUBSET CursorProperties}

\* the lists of properties of at most n entries
RECURSIVE PropertyLists(_)
PropertyLists(n) ==
  IF n = 0 THEN {<<>>}
  ELSE LET shorter == PropertyLists(n - 1)
       IN shorter \cup {Append(l, p) : l \in shorter, p \in CursorProperties}

\* the data sets of at most n records
RECURSIVE CursorDocs(_)
CursorDocs(n) ==
  IF n = 0 THEN {<<>>}
  ELSE LET shorter == CursorDocs(n - 1)
       IN shorter \cup {Append(l, [added_at |-> k]) : l \in shorter, k \in 1..MaxKey}

CursorInit ==
  /\ docs \in CursorDocs(MaxCursorDocs)
  /\ querySort \in CursorSorts
  /\ queryLimit = 1
  /\ pages = <<>>
  /\ paginator = <<>>
  /\ static = NoDefaults
  /\ instance = NoDefaults
  /\ revision = "loop"
  /\ options = [name |-> DatabaseName, maxReconnectAttempts |-> maxReconnectAttemptsDefault,
                indexes |-> 0]
  /\ mongo = MongoFields
  /\ tasks = EmptyBag
  /\ clients = 0
  /\ closed = {}
  /\ emitted = <<>>
  /\ attempts = 0
  /\ transport = 0
  /\ last = "new"
  /\ reconnects = 0
  /\ explicit = FALSE
  /\ dropped = 0
  /\ limitCount = limitCountDefault
  /\ found = <<>>
  /\ ops = <<>>
  /\ server = [connected |-> TRUE, exists |-> TRUE, cache |-> 1, creates |-> 0]
  /\ tx = NoTransaction

\* the sort parameter with its default {}
paginatorSortArgument == IF querySort = <<>> THEN <<>> ELSE querySort[1]

\* the data set in the order of a one-field sort
Sorted == SortStage(docs, paginatorSortArgument)

\* createPaginator(object, properties, sort, type); position is the place
\* of object in the sorted data set, 0 when it is not taken from there
PaginatorCall(object, properties, type, position) ==
  [object |-> object, properties |-> properties, sort |-> paginatorSortArgument, type |-> type,
   position |-> position,
   string |-> createPaginator(object, properties, paginatorSortArgument, type)]

\* a cursor is made from an object
CreatePaginator ==
  /\ paginator = <<>>
  /\ \E object \in CursorObjects, properties \in PropertyLists(MaxProperties),
        type \in {"next", "previous"} :
       paginator' = PaginatorCall(object, properties, type, 0)
  /\ UNCHANGED <<docs, querySort, queryLimit, pages, static, instance>>
  /\ UNCHANGED mongoVars
  /\ UNCHANGED collectionVars

\* a cursor is made from a record of the sorted data set, on the sort key
CreateBoundary ==
  /\ paginator = <<>>
  /\ DOMAIN paginatorSortArgument = {sortProperty}
  /\ paginatorSortArgument[sortProperty] \in DriverAscending \cup DriverDescending
  /\ \E i \in DOMAIN docs, type \in {"next", "previous"} :
       paginator' = PaginatorCall(Sorted[i], <<sortProperty>>, type, i)
  /\ UNCHANGED <<docs, querySort, queryLimit, pages, static, instance>>
  /\ UNCHANGED mongoVars
  /\ UNCHANGED collectionVars


\* =====================================================================
\* The connection manager, class Mongo
\* =====================================================================
\* an asynchronous flow: the promise executor of the connection or
\* disconnect getter, or a reconnect() call of the reconnect timer.  pc is the await it is
\* suspended at ("driver", "list", "index", "wait", "close") or "done";
\* db is the local variable db of the connection getter; outcome and
\* value are the state of the promise handed to the caller; live records
\* whether the manager was connected, with client and db set, at the
\* moment the promise resolved; failed records that connect() failed;
\* target is the client or db handle the pending driver call was made on;
\* arg is the argument of the call; applied records that the flow has run
\* createIndexes() over every configured index
Task(kind, pc) ==
  [kind |-> kind, pc |-> pc, db |-> <<>>, left |-> 0, outcome |-> "pending",
   value |-> <<>>, live |-> FALSE, failed |-> FALSE, target |-> 0, arg |-> <<>>,
   applied |-> FALSE, during |-> FALSE]

\* resolve(value), called while the manager is in state m
Resolve(task, value, m) ==
  [task EXCEPT !.pc = "done", !.outcome = "resolved", !.value = value,
               !.live = m.connected /\ m.client # <<>> /\ m.db # <<>>]

\* a flow is started
Add(ts, task) == ts (+) SetToBag({task})

\* a flow that has ended and whose promise nobody holds leaves the bag
Remove(ts, task) == ts (-) SetToBag({task})

\* flow task goes on and becomes flow next
Step(ts, task, next) == Add(Remove(ts, task), next)

\* the number of flows
Size(ts) == BagCardinality(ts)

\* a throw inside the async promise executor: the executor ends and the
\* promise handed to the caller is never settled
Throw(task) == [task EXCEPT !.pc = "done", !.failed = TRUE]

MongoInit ==
  /\ revision \in {"loop", "timer"}
  /\ options \in [name : {DatabaseName},
                     maxReconnectAttempts : IF revision = "timer" THEN 0..MaxReconnectOption
                                            ELSE {maxReconnectAttemptsDefault},
                     indexes : 0..MaxIndexes]
  /\ mongo = MongoFields
  /\ tasks = EmptyBag
  /\ clients = 0
  /\ closed = {}
  /\ emitted = <<>>
  /\ attempts = 0
  /\ transport = 0
  /\ last = "new"
  /\ reconnects = 0
  /\ explicit = FALSE
  /\ dropped = 0
  /\ limitCount = limitCountDefault
  /\ found = <<>>
  /\ ops = <<>>
  /\ server = [connected |-> TRUE, exists |-> TRUE, cache |-> 1, creates |-> 0]
  /\ tx = NoTransaction
  /\ docs = <<>>
  /\ querySort = <<>>
  /\ queryLimit = 1
  /\ pages = <<>>
  /\ paginator = <<>>
  /\ static = NoDefaults
  /\ instance = NoDefaults

\* ---------------------------------------------------------------------
\* src/src/Mongo.ts, lines 40-238: the retry-loop revision
\* ---------------------------------------------------------------------
\* LoopGetConnection, had the getter not looked at connected
LoopGetConnectionAlways(m, ts) ==
  [mongo |-> [m EXCEPT !.retrying = TRUE],
   tasks |-> Add(ts, Task("connection", "driver")), issued |-> 1]

\* get connection(), up to its first await
LoopGetConnection(m, ts) ==
  IF m.connected
  THEN [mongo |-> m, tasks |-> Add(ts, Resolve(Task("connection", "done"), m.db, m)), issued |-> 0]
  ELSE [mongo |-> [m EXCEPT !.retrying = TRUE],
        tasks |-> Add(ts, Task("connection", "driver")), issued |-> 1]

\* get connection(), from the return of connect() with value db on
LoopAfterConnect(m, task, db) ==
  LET t1 == [task EXCEPT !.db = db]
  IN IF ~m.indexed /\ options.indexes > 0
     THEN IF m.db = <<>>
          THEN [mongo |-> m, task |-> [t1 EXCEPT !.pc = "wait"]]
          ELSE [mongo |-> m, task |-> [t1 EXCEPT !.pc = "index", !.left = options.indexes]]
     ELSE LET m2 == [m EXCEPT !.indexed = TRUE, !.retrying = FALSE]
          IN [mongo |-> m2, task |-> Resolve(t1, db, m2)]

\* the connection getter is requested by a caller
LoopConnection ==
  /\ revision = "loop"
  /\ Size(tasks) < MaxTasks
  /\ ~mongo.connected => attempts < MaxAttempts
  /\ LET r == LoopGetConnection(mongo, tasks)
     IN /\ mongo' = r.mongo
        /\ tasks' = r.tasks
        /\ attempts' = attempts + r.issued
  /\ emitted' = <<>>
  /\ last' = "connection"
  /\ UNCHANGED searchVars
  /\ UNCHANGED collectionVars
  /\ UNCHANGED <<revision, options, dropped, clients, closed, transport, reconnects, explicit>>

\* connect(): MongoClient.connect settles
LoopConnectDriver(t, ok) ==
  /\ revision = "loop"
  /\ t.pc = "driver"
  /\ IF ok
     THEN /\ clients' = clients + 1
          /\ mongo' = [mongo EXCEPT !.client = <<clients + 1>>, !.db = <<clients + 1>>,
                                    !.connected = TRUE]
          /\ tasks' = Step(tasks, t, [t EXCEPT !.pc = "list"])
          /\ emitted' = <<>>
     ELSE /\ LET r == LoopAfterConnect(mongo, [t EXCEPT !.failed = TRUE], <<>>)
             IN /\ mongo' = r.mongo
                /\ tasks' = Step(tasks, t, r.task)
          /\ emitted' = <<"error">>
          /\ UNCHANGED clients
  /\ last' = "connect"
  /\ UNCHANGED searchVars
  /\ UNCHANGED collectionVars
  /\ UNCHANGED <<revision, options, dropped, closed, attempts, transport, reconnects, explicit>>

\* connect(): listCollections of getCollections(true) settles
LoopConnectList(t, ok) ==
  /\ revision = "loop"
  /\ t.pc = "list"
  /\ IF ok
     THEN LET m1 == [mongo EXCEPT !.collections = <<{}>>]
              r == LoopAfterConnect(m1, t, m1.db)
          IN /\ mongo' = r.mongo
             /\ tasks' = Step(tasks, t, r.task)
             /\ emitted' = <<"connected">>
     ELSE LET r == LoopAfterConnect(mongo, [t EXCEPT !.failed = TRUE], <<>>)
          IN /\ mongo' = r.mongo
             /\ tasks' = Step(tasks, t, r.task)
             /\ emitted' = <<"error">>
  /\ last' = "connect"
  /\ UNCHANGED searchVars
  /\ UNCHANGED collectionVars
  /\ UNCHANGED <<revision, options, dropped, clients, closed, attempts, transport, reconnects, explicit>>

\* createIndexes(): a createIndex call settles
LoopCreateIndex(t, ok) ==
  /\ revision = "loop"
  /\ t.pc = "index"
  /\ IF ~ok
     THEN /\ tasks' = Step(tasks, t, [t EXCEPT !.pc = "wait"])
          /\ UNCHANGED mongo
     ELSE IF t.left > 1
     THEN /\ tasks' = Step(tasks, t, [t EXCEPT !.left = @ - 1,
                                                 !.pc = IF mongo.db = <<>> THEN "wait" ELSE "index"])
          /\ UNCHANGED mongo
     ELSE LET m2 == [mongo EXCEPT !.indexed = TRUE, !.retrying = FALSE]
          IN /\ mongo' = m2
             /\ tasks' = Step(tasks, t, Resolve([t EXCEPT !.applied = TRUE], t.db, m2))
  /\ emitted' = <<>>
  /\ last' = "createIndexes"
  /\ UNCHANGED searchVars
  /\ UNCHANGED collectionVars
  /\ UNCHANGED <<revision, options, dropped, clients, closed, attempts, transport, reconnects, explicit>>

\* get connection(): wait(1e3) of the catch block is over, the loop goes on
LoopWait(t) ==
  /\ revision = "loop"
  /\ t.pc = "wait"
  /\ IF t.db = <<>>
     THEN /\ attempts < MaxAttempts
          /\ tasks' = Step(tasks, t, [t EXCEPT !.pc = "driver"])
          /\ attempts' = attempts + 1
     ELSE /\ tasks' = Step(tasks, t, [t EXCEPT !.pc = "done"])
          /\ UNCHANGED attempts
  /\ emitted' = <<>>
  /\ last' = "wait"
  /\ UNCHANGED searchVars
  /\ UNCHANGED collectionVars
  /\ UNCHANGED <<revision, options, dropped, mongo, clients, closed, transport, reconnects, explicit>>

\* get disconnect(): the fields are cleared before the executor looks at this.client
LoopGetDisconnect(m) ==
  [m EXCEPT !.connected = FALSE, !.db = <<>>, !.client = <<>>]

\* the disconnect getter is requested by a caller; its promise resolves
\* within the call
LoopDisconnect ==
  /\ revision = "loop"
  /\ mongo' = LoopGetDisconnect(mongo)
  /\ emitted' = <<>>
  /\ last' = "disconnect"
  /\ UNCHANGED searchVars
  /\ UNCHANGED collectionVars
  /\ UNCHANGED <<revision, options, dropped, tasks, clients, closed, attempts, transport, reconnects,
                 explicit>>

\* the 'close' listener of a client
LoopOnClose ==
  /\ revision = "loop"
  /\ clients > 0
  /\ transport < MaxTransport
  /\ transport' = transport + 1
  /\ mongo' = LoopGetDisconnect(mongo)
  /\ emitted' = <<>>
  /\ last' = "close"
  /\ UNCHANGED searchVars
  /\ UNCHANGED collectionVars
  /\ UNCHANGED <<revision, options, dropped, tasks, clients, closed, attempts, reconnects, explicit>>

\* the 'error' listener of a client
LoopOnError ==
  /\ revision = "loop"
  /\ clients > 0
  /\ transport < MaxTransport
  /\ transport' = transport + 1
  /\ IF ~mongo.retrying
     THEN /\ Size(tasks) < MaxTasks
          /\ ~mongo.connected => attempts < MaxAttempts
          /\ LET r == LoopGetConnection(mongo, tasks)
             IN /\ mongo' = r.mongo
                /\ tasks' = r.tasks
                /\ attempts' = attempts + r.issued
     ELSE UNCHANGED <<mongo, tasks, attempts>>
  /\ emitted' = <<>>
  /\ last' = "error"
  /\ UNCHANGED searchVars
  /\ UNCHANGED collectionVars
  /\ UNCHANGED <<revision, options, dropped, clients, closed, reconnects, explicit>>

\* the 'reconnect' listener of a client
LoopOnReconnect ==
  /\ revision = "loop"
  /\ clients > 0
  /\ transport < MaxTransport
  /\ transport' = transport + 1
  /\ mongo' = [mongo EXCEPT !.connected = TRUE]
  /\ emitted' = <<"reconnected">>
  /\ last' = "reconnect"
  /\ UNCHANGED searchVars
  /\ UNCHANGED collectionVars
  /\ UNCHANGED <<revision, options, dropped, tasks, clients, closed, attempts, reconnects, explicit>>

\* ---------------------------------------------------------------------
\* src/src/OnesyMongo.ts, lines 76-304: the reconnect-timer revision
\* ---------------------------------------------------------------------
\* connect(), up to its first await
TimerConnectStart(m) ==
  [m EXCEPT !.isExplicitDisconnect = FALSE, !.reconnectAttempts = 0]

\* TimerOnDisconnect, had onDisconnect() not looked at isExplicitDisconnect
TimerOnDisconnectAlways(m) ==
  IF m.reconnectAttempts < options.maxReconnectAttempts
  THEN [m EXCEPT !.connected = FALSE, !.reconnectAttempts = @ + 1, !.reconnectTimeout = TRUE]
  ELSE [m EXCEPT !.connected = FALSE]

\* onDisconnect(): the fields after it
TimerOnDisconnect(m) ==
  IF m.isExplicitDisconnect THEN m
  ELSE IF m.reconnectAttempts < options.maxReconnectAttempts
  THEN [m EXCEPT !.connected = FALSE, !.reconnectAttempts = @ + 1, !.reconnectTimeout = TRUE]
  ELSE [m EXCEPT !.connected = FALSE]

\* onDisconnect(): the events it emits
TimerOnDisconnectEmits(m) ==
  IF m.isExplicitDisconnect THEN <<>> ELSE <<"disconnected">>

\* the connection getter is requested by a caller
TimerConnection ==
  /\ revision = "timer"
  /\ Size(tasks) < MaxTasks
  /\ IF mongo.connected
     THEN /\ tasks' = Add(tasks, Resolve(Task("connection", "done"), mongo.db, mongo))
          /\ UNCHANGED <<mongo, attempts>>
     ELSE /\ attempts < MaxAttempts
          /\ mongo' = TimerConnectStart(mongo)
          /\ tasks' = Add(tasks, Task("connection", "driver"))
          /\ attempts' = attempts + 1
  /\ emitted' = <<>>
  /\ last' = "connection"
  /\ reconnects' = 0
  /\ explicit' = FALSE
  /\ UNCHANGED searchVars
  /\ UNCHANGED collectionVars
  /\ UNCHANGED <<revision, options, dropped, clients, closed, transport>>

\* connect() has thrown ConnectionError in flow t: the connection getter
\* rethrows inside its executor, reconnect() calls onDisconnect()
TimerConnectFailed(t) ==
  IF t.kind = "reconnect"
  THEN /\ tasks' = Remove(tasks, t)
       /\ mongo' = TimerOnDisconnect(mongo)
       /\ emitted' = <<"error">> \o TimerOnDisconnectEmits(mongo)
  ELSE /\ tasks' = Step(tasks, t, Throw(t))
       /\ UNCHANGED mongo
       /\ emitted' = <<"error">>

\* connect(): MongoClient.connect settles
TimerConnectDriver(t, ok) ==
  /\ revision = "timer"
  /\ t.pc = "driver"
  /\ IF ok
     THEN /\ clients' = clients + 1
          /\ mongo' = [mongo EXCEPT !.client = <<clients + 1>>, !.db = <<clients + 1>>,
                                    !.connected = TRUE, !.reconnectAttempts = 0]
          /\ tasks' = Step(tasks, t, [t EXCEPT !.pc = "list"])
          /\ emitted' = <<>>
          /\ reconnects' = 0
     ELSE /\ TimerConnectFailed(t)
          /\ UNCHANGED <<clients, reconnects>>
  /\ last' = "connect"
  /\ UNCHANGED searchVars
  /\ UNCHANGED collectionVars
  /\ UNCHANGED <<revision, options, dropped, closed, attempts, transport, explicit>>

\* get connection(): createIndexes() is called after connect() returned db
TimerAfterConnect(m, task, db) ==
  LET t1 == [task EXCEPT !.db = db]
  IN IF options.indexes = 0 THEN Resolve(t1, db, m)
     ELSE IF m.db = <<>> THEN Throw(t1)
     ELSE [t1 EXCEPT !.pc = "index", !.left = options.indexes]

\* connect(): listCollections of getCollections(true) settles
TimerConnectList(t, ok) ==
  /\ revision = "timer"
  /\ t.pc = "list"
  /\ IF ok
     THEN /\ mongo' = [mongo EXCEPT !.collections = <<{}>>]
          /\ tasks' = IF t.kind = "reconnect" THEN Remove(tasks, t)
                       ELSE Step(tasks, t, TimerAfterConnect(mongo', t, mongo'.db))
          /\ emitted' = <<"connected">>
     ELSE TimerConnectFailed(t)
  /\ last' = "connect"
  /\ UNCHANGED searchVars
  /\ UNCHANGED collectionVars
  /\ UNCHANGED <<revision, options, dropped, clients, closed, attempts, transport, reconnects, explicit>>

\* createIndexes(): a createIndex call settles
TimerCreateIndex(t, ok) ==
  /\ revision = "timer"
  /\ t.pc = "index"
  /\ tasks' = Step(tasks, t,
       IF ~ok THEN Throw(t)
       ELSE IF t.left > 1
       THEN (IF mongo.db = <<>> THEN Throw(t) ELSE [t EXCEPT !.left = @ - 1])
       ELSE Resolve([t EXCEPT !.applied = TRUE], t.db, mongo))
  /\ emitted' = <<>>
  /\ last' = "createIndexes"
  /\ UNCHANGED searchVars
  /\ UNCHANGED collectionVars
  /\ UNCHANGED <<revision, options, dropped, mongo, clients, closed, attempts, transport, reconnects,
                 explicit>>

\* the disconnect getter is requested by a caller, up to client.close()
TimerDisconnect ==
  /\ revision = "timer"
  /\ Size(tasks) < MaxTasks
  /\ mongo' = [mongo EXCEPT !.isExplicitDisconnect = TRUE, !.reconnectTimeout = FALSE]
  /\ tasks' = Add(tasks,
       LET during == \E t \in DOMAIN tasks : t.kind = "reconnect"
       IN IF mongo.client # <<>>
          THEN [Task("disconnect", "close") EXCEPT !.target = mongo.client[1],
                                                   !.during = during]
          ELSE Resolve([Task("disconnect", "done") EXCEPT !.during = during], <<>>, mongo'))
  /\ emitted' = <<>>
  /\ last' = "disconnect"
  /\ reconnects' = 0
  /\ explicit' = (explicit \/ mongo.connected)
  /\ UNCHANGED searchVars
  /\ UNCHANGED collectionVars
  /\ UNCHANGED <<revision, options, dropped, clients, closed, attempts, transport>>

\* get disconnect(): client.close() settles
TimerDisconnectClose(t, ok) ==
  /\ revision = "timer"
  /\ t.pc = "close"
  /\ IF ok
     THEN /\ closed' = closed \cup {t.target}
          /\ mongo' = [mongo EXCEPT !.connected = FALSE, !.db = <<>>, !.client = <<>>]
          /\ tasks' = Step(tasks, t, Resolve(t, <<>>, mongo'))
          /\ emitted' = <<"disconnected">>
     ELSE /\ tasks' = Step(tasks, t, Throw(t))
          /\ emitted' = <<>>
          /\ UNCHANGED <<mongo, closed>>
  /\ last' = "disconnect"
  /\ UNCHANGED searchVars
  /\ UNCHANGED collectionVars
  /\ UNCHANGED <<revision, options, dropped, clients, attempts, transport, reconnects, explicit>>

\* the 'close' listener of a client
TimerOnClose ==
  /\ revision = "timer"
  /\ clients > 0
  /\ transport < MaxTransport
  /\ transport' = transport + 1
  /\ mongo' = TimerOnDisconnect(mongo)
  /\ emitted' = TimerOnDisconnectEmits(mongo)
  /\ last' = "close"
  /\ UNCHANGED searchVars
  /\ UNCHANGED collectionVars
  /\ UNCHANGED <<revision, options, dropped, tasks, clients, closed, attempts, reconnects, explicit>>

\* the 'error' listener of a client
TimerOnError ==
  /\ revision = "timer"
  /\ clients > 0
  /\ transport < MaxTransport
  /\ transport' = transport + 1
  /\ mongo' = TimerOnDisconnect(mongo)
  /\ emitted' = TimerOnDisconnectEmits(mongo)
  /\ last' = "error"
  /\ UNCHANGED searchVars
  /\ UNCHANGED collectionVars
  /\ UNCHANGED <<revision, options, dropped, tasks, clients, closed, attempts, reconnects, explicit>>

\* the 'reconnect' listener of a client
TimerOnReconnect ==
  /\ revision = "timer"
  /\ clients > 0
  /\ transport < MaxTransport
  /\ transport' = transport + 1
  /\ mongo' = [mongo EXCEPT !.connected = TRUE, !.reconnectAttempts = 0]
  /\ emitted' = <<"reconnected">>
  /\ last' = "reconnect"
  /\ reconnects' = 0
  /\ UNCHANGED searchVars
  /\ UNCHANGED collectionVars
  /\ UNCHANGED <<revision, options, dropped, tasks, clients, closed, attempts, explicit>>

\* the reconnect timer of onDisconnect() fires: reconnect() calls connect()
TimerReconnect ==
  /\ revision = "timer"
  /\ mongo.reconnectTimeout
  /\ Size(tasks) < MaxTasks
  /\ attempts < MaxAttempts
  /\ mongo' = [TimerConnectStart(mongo) EXCEPT !.reconnectTimeout = FALSE]
  /\ tasks' = Add(tasks, Task("reconnect", "driver"))
  /\ attempts' = attempts + 1
  /\ reconnects' = reconnects + 1
  /\ emitted' = <<>>
  /\ last' = "reconnect()"
  /\ UNCHANGED searchVars
  /\ UNCHANGED collectionVars
  /\ UNCHANGED <<revision, options, dropped, clients, closed, transport, explicit>>

\* ---------------------------------------------------------------------
\* The reconnect-timer revision after the connection was lost: the first
\* client is still in the fields, the reconnect timer is pending
\* ---------------------------------------------------------------------
ConnectionLost ==
  [MongoFields EXCEPT !.client = <<1>>, !.db = <<1>>, !.collections = <<{}>>,
                      !.reconnectAttempts = 1, !.reconnectTimeout = TRUE]

ReconnectInit ==
  /\ docs = <<>>
  /\ querySort = <<>>
  /\ queryLimit = 1
  /\ pages = <<>>
  /\ paginator = <<>>
  /\ static = NoDefaults
  /\ instance = NoDefaults
  /\ revision = "timer"
  /\ options \in [name : {DatabaseName},
                     maxReconnectAttempts : 1..(MaxReconnectOption + 1),
                     indexes : 0..MaxIndexes]
  /\ mongo = ConnectionLost
  /\ tasks = EmptyBag
  /\ clients = 1
  /\ closed = {}
  /\ emitted = <<"disconnected">>
  /\ attempts = 1
  /\ transport = 0
  /\ last = "close"
  /\ reconnects = 0
  /\ explicit = FALSE
  /\ dropped = 0
  /\ limitCount = limitCountDefault
  /\ found = <<>>
  /\ ops = <<>>
  /\ server = [connected |-> TRUE, exists |-> TRUE, cache |-> 1, creates |-> 0]
  /\ tx = NoTransaction

\* ---------------------------------------------------------------------
\* reset(name), the same in both revisions (Mongo.ts 164-172,
\* OnesyMongo.ts 188-196)
\* ---------------------------------------------------------------------
\* the arguments reset is called with: undefined, the empty string, a name
\* contained in the database's name, the name itself, a name containing
\* it, another name
ResetNames ==
  {<<>>, << <<>> >>, << <<"a">> >>, << <<"a", "b">> >>, << <<"a", "b", "c">> >>, << <<"b">> >>}

\* a is a prefix of b
IsPrefix(a, b) == Len(a) <= Len(b) /\ SubSeq(b, 1, Len(a)) = a

\* resetGuard, had it accepted a name that starts or is started by databaseName
resetGuardPrefix(m, name) ==
  /\ m.db # <<>>
  /\ name # <<>>
  /\ name[1] # <<>>
  /\ (IsPrefix(name[1], options.name) \/ IsPrefix(options.name, name[1]))

\* this.db && name && this.db.databaseName === name
resetGuard(m, name) ==
  /\ m.db # <<>>
  /\ name # <<>>
  /\ name[1] # <<>>
  /\ options.name = name[1]

\* a manager on which the connection getter has resolved
Connected ==
  [MongoFields EXCEPT !.connected = TRUE, !.client = <<1>>, !.db = <<1>>, !.collections = <<{}>>,
                      !.indexed = (revision = "loop")]

ResetInit ==
  /\ revision \in {"loop", "timer"}
  /\ options = [name |-> DatabaseName, maxReconnectAttempts |-> maxReconnectAttemptsDefault,
                indexes |-> 0]
  /\ mongo \in {MongoFields, Connected}
  /\ tasks = EmptyBag
  /\ clients = (IF mongo.connected THEN 1 ELSE 0)
  /\ closed = {}
  /\ emitted = <<>>
  /\ attempts = clients
  /\ transport = 0
  /\ last = "new"
  /\ reconnects = 0
  /\ explicit = FALSE
  /\ dropped = 0
  /\ limitCount = limitCountDefault
  /\ found = <<>>
  /\ ops = <<>>
  /\ server = [connected |-> TRUE, exists |-> TRUE, cache |-> 1, creates |-> 0]
  /\ tx = NoTransaction
  /\ docs = <<>>
  /\ querySort = <<>>
  /\ queryLimit = 1
  /\ pages = <<>>
  /\ paginator = <<>>
  /\ static = NoDefaults
  /\ instance = NoDefaults

\* reset(name), up to its await of dropDatabase()
Reset(name) ==
  /\ Size(tasks) < MaxTasks
  /\ tasks' = Add(tasks,
       IF resetGuard(mongo, name)
       THEN [Task("reset", "drop") EXCEPT !.arg = name, !.target = mongo.db[1]]
       ELSE [Resolve(Task("reset", "done"), <<>>, mongo) EXCEPT !.arg = name])
  /\ emitted' = <<>>
  /\ last' = "reset"
  /\ UNCHANGED searchVars
  /\ UNCHANGED collectionVars
  /\ UNCHANGED <<revision, options, dropped, mongo, clients, closed, attempts, transport,
                 reconnects, explicit>>

\* reset(name): dropDatabase() settles
ResetDrop(t, ok) ==
  /\ t.kind = "reset"
  /\ t.pc = "drop"
  /\ IF ok
     THEN /\ dropped' = dropped + 1
          /\ tasks' = Step(tasks, t, Resolve(t, <<>>, mongo))
          /\ emitted' = <<"reset">>
     ELSE /\ tasks' = Step(tasks, t, [t EXCEPT !.pc = "done", !.outcome = "rejected"])
          /\ emitted' = <<>>
          /\ UNCHANGED dropped
  /\ last' = "dropDatabase"
  /\ UNCHANGED searchVars
  /\ UNCHANGED collectionVars
  /\ UNCHANGED <<revision, options, mongo, clients, closed, attempts, transport, reconnects,
                 explicit>>

\* ---------------------------------------------------------------------
\* Specifications
\* ---------------------------------------------------------------------
SearchStep ==
  \/ SearchOffset
  \/ SearchNext
  \/ SearchPrevious

MongoStep ==
  \/ LoopConnection
  \/ \E t \in DOMAIN tasks, ok \in BOOLEAN : LoopConnectDriver(t, ok)
  \/ \E t \in DOMAIN tasks, ok \in BOOLEAN : LoopConnectList(t, ok)
  \/ \E t \in DOMAIN tasks, ok \in BOOLEAN : LoopCreateIndex(t, ok)
  \/ \E t \in DOMAIN tasks : LoopWait(t)
  \/ LoopDisconnect
  \/ LoopOnClose
  \/ LoopOnError
  \/ LoopOnReconnect
  \/ TimerConnection
  \/ \E t \in DOMAIN tasks, ok \in BOOLEAN : TimerConnectDriver(t, ok)
  \/ \E t \in DOMAIN tasks, ok \in BOOLEAN : TimerConnectList(t, ok)
  \/ \E t \in DOMAIN tasks, ok \in BOOLEAN : TimerCreateIndex(t, ok)
  \/ TimerDisconnect
  \/ \E t \in DOMAIN tasks, ok \in BOOLEAN : TimerDisconnectClose(t, ok)
  \/ TimerOnClose
  \/ TimerOnError
  \/ TimerOnReconnect
  \/ TimerReconnect

SpecSearch == SearchInit /\ [][SearchStep]_vars

PipelineStep ==
  \/ SearchManyQuery
  \/ SearchManyRaw

SpecPipeline == PipelineInit /\ [][PipelineStep]_vars

OperationStep ==
  \/ Call
  \/ \E i \in DOMAIN ops : CollectionDb(i)
  \/ \E i \in DOMAIN ops : CollectionGetCollections(i)
  \/ \E i \in DOMAIN ops, ok \in BOOLEAN : CollectionCreateCollection(i, ok)
  \/ \E i \in DOMAIN ops : OperationTry(i)
  \/ \E i \in DOMAIN ops, ok \in BOOLEAN : OperationDriver(i, ok)

SpecOperation == OperationInit /\ [][OperationStep]_vars

CollectionStep ==
  \/ CallConcurrent
  \/ \E i \in DOMAIN ops : CollectionDb(i)
  \/ \E i \in DOMAIN ops : CollectionGetCollections(i)
  \/ \E i \in DOMAIN ops, ok \in BOOLEAN : CollectionCreateCollection(i, ok)
  \/ \E i \in DOMAIN ops : OperationTry(i)
  \/ \E i \in DOMAIN ops, ok \in BOOLEAN : OperationDriver(i, ok)

SpecCollection == OperationInit /\ [][CollectionStep]_vars

TransactionStep ==
  \/ Transaction
  \/ TransactionWhile
  \/ \E result \in AttemptResults, returned \in BOOLEAN : TransactionAttempt(result, returned)

SpecTransaction == TransactionInit /\ [][TransactionStep]_vars

ReconnectStep ==
  \/ TimerConnection
  \/ \E t \in DOMAIN tasks, ok \in BOOLEAN : TimerConnectDriver(t, ok)
  \/ \E t \in DOMAIN tasks, ok \in BOOLEAN : TimerConnectList(t, ok)
  \/ \E t \in DOMAIN tasks, ok \in BOOLEAN : TimerCreateIndex(t, ok)
  \/ TimerDisconnect
  \/ \E t \in DOMAIN tasks, ok \in BOOLEAN : TimerDisconnectClose(t, ok)
  \/ TimerOnClose
  \/ TimerOnError
  \/ TimerOnReconnect
  \/ TimerReconnect

SpecReconnect == ReconnectInit /\ [][ReconnectStep]_vars

OneStep ==
  \/ SearchManyLimitOneQuery
  \/ SearchManyLimitOneRaw
  \/ SearchOneSame

SpecOne == OneInit /\ [][OneStep]_vars

TotalStep ==
  \/ SearchManyTotalQuery
  \/ SearchManyTotalRaw

SpecTotal == TotalInit /\ [][TotalStep]_vars

CursorStep ==
  \/ CreatePaginator
  \/ CreateBoundary

SpecCursor == CursorInit /\ [][CursorStep]_vars

SpecMongo == MongoInit /\ [][MongoStep]_vars

ResetStep ==
  \/ \E name \in ResetNames : Reset(name)
  \/ \E t \in DOMAIN tasks, ok \in BOOLEAN : ResetDrop(t, ok)

SpecReset == ResetInit /\ [][ResetStep]_vars

\* =====================================================================
\* Properties of searchMany
\* =====================================================================
Min(a, b) == IF a < b THEN a ELSE b

\* the data set in ascending order of the sort field
Ascending == SortStage(docs, [added_at |-> "1"])

IsOffset(p) == ~hasPaginator(p.query, p.options)

IsNext(p) == searchNext(p.query, p.options) # <<>>

IsPrevious(p) ==
  searchPrevious(p.query, p.options) # <<>> /\ searchNext(p.query, p.options) = <<>>

\* C1: under an ascending sort with distinct sort-key values, the call made
\* with page 1's next cursor and the same limit L returns the records at
\* positions L .. 2L-1 of the sorted data set, or all the remaining records
\* when fewer than L remain.
C1_NextPageAscending ==
  \A i \in 2..Len(pages) :
    ( /\ querySort = <<[added_at |-> "1"]>>
      /\ IsOffset(pages[i - 1])
      /\ pages[i - 1].query.skip \in {<<>>, <<0>>}
      /\ IsNext(pages[i]) )
    => pages[i].response
         = SubSeq(Ascending, queryLimit + 1, Min(2 * queryLimit, Len(docs)))

\* C2: when page N+1 was reached from page N with the next cursor, the call
\* made with page N+1's previous cursor and the same limit and sort returns
\* exactly the records of page N, in the same order.
C2_PreviousReproducesPage ==
  \A i \in 3..Len(pages) :
    (IsNext(pages[i - 1]) /\ IsPrevious(pages[i]))
    => pages[i].response = pages[i - 2].response

\* C3: in offset, next-cursor and previous-cursor mode alike the pipeline
\* has one $limit stage, of limit + 1, the fetched batch holds at most
\* limit + 1 records and the returned page at most limit records.
C3_PageSize ==
  \A i \in 1..Len(pages) :
    LET p == pages[i]
        limits == {j \in DOMAIN p.pipeline : p.pipeline[j].op = "$limit"}
    IN /\ Cardinality(limits) = 1
       /\ \A j \in limits : p.pipeline[j].arg = p.limit + 1
       /\ Len(p.batch) <= p.limit + 1
       /\ Len(p.response) <= p.limit

\* a session whose three calls, one of each mode, each fetched limit + 1
\* records and returned limit of them
C3_Witness ==
  /\ \E i \in 1..Len(pages) : IsOffset(pages[i]) /\ Len(pages[i].batch) = queryLimit + 1
                              /\ Len(pages[i].response) = queryLimit
  /\ \E i \in 1..Len(pages) : IsNext(pages[i]) /\ Len(pages[i].batch) = queryLimit + 1
                              /\ Len(pages[i].response) = queryLimit
  /\ \E i \in 1..Len(pages) : IsPrevious(pages[i]) /\ Len(pages[i].batch) = queryLimit + 1
                              /\ Len(pages[i].response) = queryLimit

C5_ReconnectBound ==
  revision = "timer" => reconnects <= options.maxReconnectAttempts

C7_SharedAttempt ==
  Size([t \in {u \in DOMAIN tasks : u.kind = "connection" /\ u.pc = "driver"} |-> tasks[t]]) <= 1

\* C8: in the retry-loop revision, a resolved connection promise carries a
\* db handle, and the manager was connected with client and db set at the
\* moment it resolved.
C8_ResolvesConnected ==
  revision = "loop" =>
    \A t \in DOMAIN tasks :
      (t.kind = "connection" /\ t.outcome = "resolved")
      => (t.value # <<>> /\ t.live)

\* C9: in the reconnect-timer revision, a connection request whose
\* connection establishment failed ends with a rejected promise.
C9_FailureRejects ==
  revision = "timer" =>
    \A t \in DOMAIN tasks :
      (t.kind = "connection" /\ t.failed /\ t.pc = "done")
      => t.outcome = "rejected"

\* C10: a connection request made while connected is true resolves at once
\* with the db field; it issues no driver connection attempt, starts no
\* collection-list fetch and no index creation, emits no event and changes
\* no field of the manager.
C10_ConnectedIsIdempotent ==
  [][ \A t \in DOMAIN tasks' :
        ( /\ mongo.connected
          /\ Size(tasks') = Size(tasks) + 1
          /\ t.kind = "connection"
          /\ CopiesIn(t, tasks') = CopiesIn(t, tasks) + 1 )
        => ( /\ t.pc = "done"
             /\ t.outcome = "resolved"
             /\ t.value = mongo.db
             /\ tasks' = Add(tasks, t)
             /\ mongo' = mongo
             /\ attempts' = attempts
             /\ clients' = clients
             /\ emitted' = <<>> ) ]_vars

\* a connection request answered from the established connection
C10_Witness ==
  /\ last = "connection"
  /\ mongo.connected
  /\ mongo.db # <<>>
  /\ \E t \in DOMAIN tasks :
       \* the request answered at once never assigned its local db
       /\ t.kind = "connection" /\ t.outcome = "resolved" /\ t.value = mongo.db /\ t.db = <<>>
       \* the request that established the connection
       /\ \E u \in DOMAIN tasks : u.kind = "connection" /\ u.outcome = "resolved" /\ u.db = mongo.db

\* C11: in the retry-loop revision, disconnect called on a connected manager
\* closes the driver client and leaves connected false, db and client
\* undefined and a 'disconnected' event delivered to the subscribers.
C11_DisconnectCloses ==
  [][ ( /\ revision = "loop"
        /\ mongo.connected
        /\ mongo.client # <<>>
        /\ last' = "disconnect" )
      => ( /\ ~mongo'.connected
           /\ mongo'.db = <<>>
           /\ mongo'.client = <<>>
           /\ mongo.client[1] \in closed'
           /\ "disconnected" \in {emitted'[i] : i \in DOMAIN emitted'} ) ]_vars

C13_IndexesOnce ==
  revision = "loop" =>
    /\ Size([t \in {u \in DOMAIN tasks : u.applied} |-> tasks[t]]) <= 1
    /\ \A t \in DOMAIN tasks : t.pc = "index" => clients > 0

\* =====================================================================
\* Properties of createPaginator
\* =====================================================================
\* C14: the mapping decoded from the cursor made from record r of the data
\* set, matched against the data set sorted by the sort the cursor was made
\* with, selects exactly the records after r in that order for 'next' and
\* exactly the records before r for 'previous'.
C14_CursorBoundary ==
  (paginator # <<>> /\ paginator.position > 0)
  => MatchStage(Sorted, decode(paginator.string))
       = IF paginator.type = "next"
         THEN SubSeq(Sorted, paginator.position + 1, Len(Sorted))
         ELSE SubSeq(Sorted, 1, paginator.position - 1)

\* the operator the claim gives a field
C15_Operator(sort, property, type) ==
  LET descending == property \in DOMAIN sort /\ sort[property] \in {"dsc", "descending", "-1"}
  IN IF (type = "next") = descending THEN "$lt" ELSE "$gt"

\* C15: decoding the string returned by createPaginator gives the mapping
\* with one entry field -> {op: value} for every listed field that is defined
\* in the record and no other entry, op being $gt for 'next' on an
\* ascending or unspecified sort and $lt for 'next' on a descending sort
\* ('dsc', 'descending', -1), and the opposite for 'previous'.
C15_RoundTrip ==
  paginator # <<>> =>
    LET mapping == decode(paginator.string)
        listed == {paginator.properties[i] : i \in DOMAIN paginator.properties}
        defined == listed \cap DOMAIN paginator.object
    IN /\ {mapping[i].property : i \in DOMAIN mapping} = defined
       /\ Len(mapping) = Cardinality(defined)
       /\ \A i \in DOMAIN mapping :
            /\ mapping[i].value = paginator.object[mapping[i].property]
            /\ mapping[i].operator
                 = C15_Operator(paginator.sort, mapping[i].property, paginator.type)

\* a 'previous' cursor over a list that names a field twice and a field the
\* object lacks, made under a descending sort of the field it has
C15_Witness ==
  /\ paginator # <<>>
  /\ paginator.type = "previous"
  /\ paginator.properties = <<"added_at", "added_at">>
  /\ DOMAIN paginator.object = {"added_at"}
  /\ "added_at" \in DOMAIN paginator.sort
  /\ paginator.sort["added_at"] = "dsc"
  /\ decode(paginator.string) = <<[property |-> "added_at", operator |-> "$gt",
                                   value |-> paginator.object["added_at"]]>>


\* ---------------------------------------------------------------------
\* The assembled pipeline of one searchMany call
\* ---------------------------------------------------------------------
\* the group each stage of a pipeline comes from, in pipeline order
Labels(pipeline) == [i \in DOMAIN pipeline |-> pipeline[i].from]

Rep(group, n) == [i \in 1..n |-> group]

\* the groups of the documented order, each with as many stages as the
\* call supplies for it
DocumentedOrder(p) ==
  LET q == p.query
      a == p.additional
      o == p.options
  IN Rep("defaults", Len(getDefaultsValue(static, instance)))
     \o Rep("query", Len(q.query))
     \o Rep("pre", Len(a.pre))
     \o Rep("aggregate", Len(q.aggregate))
     \o Rep("search", IF q.search # <<>> THEN 1 ELSE 0)
     \o Rep("api", IF q.api # <<>> THEN 1 ELSE 0)
     \o Rep("permissions", IF q.permissions # <<>> THEN 1 ELSE 0)
     \o Rep("prePagination", Len(a.prePagination))
     \o Rep("next", IF searchNext(q, o) # <<>> THEN 1 ELSE 0)
     \o Rep("previous", IF searchPrevious(q, o) # <<>> THEN 1 ELSE 0)
     \o <<"sort">>
     \o Rep("skip", IF searchSkip(q, o) # <<>> /\ ~hasPaginator(q, o) THEN 1 ELSE 0)
     \o <<"limit">>
     \o Rep("projection", IF searchProjection(q, o) # <<>> THEN 1 ELSE 0)
     \o Rep("post", Len(a.post))

\* C16: for every searchMany call the executed pipeline is, in this order
\* and with nothing in between, the default stages, the caller's pipeline,
\* pre, aggregate, the search, api and permission matches, prePagination,
\* the cursor boundary match, one sort stage, the skip stage, the limit
\* stage, the projection stage and the post stages.
C16_AssemblyOrder ==
  \A i \in DOMAIN pages : Labels(pages[i].pipeline) = DocumentedOrder(pages[i])

\* C17: when class-level and/or instance-level defaults are configured as
\* arrays, the executed pipeline starts with the class-level default stages
\* followed by the instance-level ones, ahead of every caller stage.
C17_DefaultsFirst ==
  \A i \in DOMAIN pages :
    LET value == getDefaultsValue(static, instance)
        pipeline == pages[i].pipeline
    IN /\ Len(pipeline) >= Len(value)
       /\ \A k \in DOMAIN value :
            /\ pipeline[k].from = "defaults"
            /\ pipeline[k].op = value[k].op
            /\ pipeline[k].arg = value[k].arg


\* the call was given a skip, in the query or in the options
SkipGiven(p) == p.query.skip # <<>> \/ p.options.skip # <<>>

HasStage(p, op) == \E k \in DOMAIN p.pipeline : p.pipeline[k].op = op

HasGroup(p, group) == \E k \in DOMAIN p.pipeline : p.pipeline[k].from = group

\* C18: for every searchMany call in which a skip and a next or previous
\* cursor are both present, the assembled pipeline has no $skip stage.
C18_NoSkipWithCursor ==
  \A i \in DOMAIN pages :
    SkipGiven(pages[i]) /\ hasPaginator(pages[i].query, pages[i].options)
      => ~HasStage(pages[i], "$skip")

\* a structured query with a positive skip and a next cursor was searched
C18_Witness ==
  \E i \in DOMAIN pages :
    /\ SkipGiven(pages[i])
    /\ pages[i].query.onesy
    /\ pages[i].query.skip # <<>>
    /\ pages[i].query.skip[1] > 0
    /\ IsNext(pages[i])
    /\ ~HasStage(pages[i], "$skip")

\* C19: when one searchMany call is given both a next and a previous
\* cursor, the assembled pipeline never holds the boundary-match stages of
\* both (the call fails, or exactly one of the cursors is applied).
C19_OneCursor ==
  \A i \in DOMAIN pages :
    LET p == pages[i]
    IN searchNext(p.query, p.options) # <<>> /\ searchPrevious(p.query, p.options) # <<>>
         => ~(HasGroup(p, "next") /\ HasGroup(p, "previous"))

\* a record of the collection stands ahead of the first record of the page
\* in the order of the sort
Precedes(p) ==
  LET ordered == SortStage(docs, p.sort)
  IN /\ p.response # <<>>
     /\ \E j \in DOMAIN ordered : ordered[j] = p.response[1] /\ j > 1

\* C20: in offset mode, for a structured query and for a raw pipeline with
\* options alike, hasPrevious is true exactly when the skip in effect is
\* greater than 0; with a previous cursor, exactly when a matching record
\* precedes the returned page; with a next cursor it is true.
C20_HasPrevious ==
  \A i \in DOMAIN pages :
    LET p == pages[i]
        skip == searchSkip(p.query, p.options)
    IN /\ IsOffset(p) => (p.hasPrevious <=> (skip # <<>> /\ skip[1] > 0))
       /\ IsPrevious(p) => (p.hasPrevious <=> Precedes(p))
       /\ IsNext(p) => p.hasPrevious


\* the number of records that pass the filter stages of a call, the
\* configured default stages among them
Matching(p) ==
  Len(aggregate(queryMongo(p.query, p.additional, <<getDefaultsValue(static, instance)>>),
                docs))

\* C21: when the total is requested, the total returned by searchMany is
\* min(M, limitCount), M being the number of records that pass the filter
\* stages (defaults, raw pipeline, pre, aggregate, search, api, permissions,
\* prePagination), whatever the cursor, skip, sort and limit of the call,
\* and 0 when no record matches.
C21_CappedTotal ==
  \A i \in DOMAIN pages :
    searchTotal(pages[i].query, pages[i].options)
      => pages[i].total = <<Min(Matching(pages[i]), limitCount)>>


\* C22: for the same query and the same pre and post stages, searchOne
\* returns exactly the record that searchMany with limit = 1 returns as the
\* single record of its page, and undefined when that page is empty.
C22_SearchOneIsLimitOne ==
  \A i \in DOMAIN pages, k \in DOMAIN found :
    /\ found[k].query = pages[i].query
    /\ found[k].additional = pages[i].additional
    /\ pages[i].limit = searchOneLimit
    => found[k].response = pages[i].response


C24_ValidationBeforeIO ==
  \A i \in DOMAIN ops :
    /\ ops[i].method \in {"updateOne", "updateMany", "updateOneOrAdd", "addMany", "bulkWrite"}
    /\ ops[i].cause = "validation"
    => ops[i].io = 0

\* C29: when operations that go through collection() for the same name run
\* at the same time and the name is not in the cache of known collections,
\* at most one createCollection request is issued and the name is appended
\* to the cache at most once.
C29_CreateCollectionOnce ==
  /\ server.creates <= 1
  /\ server.cache <= 1


\* an attempt failed with codeName 'WriteConflict'
IsConflict(result) == codeNameOf(result) = "WriteConflict"

\* C25: transaction(method, {retries: R}) runs method in a fresh session at
\* most R times; a further attempt starts only after a failure with
\* codeName 'WriteConflict'; a successful attempt ends the loop and returns
\* method's result; a failure with any other error, or a WriteConflict on
\* the R-th attempt, ends the loop and rejects with DeveloperError.
C25_RetryPolicy ==
  tx.pc # "idle" /\ tx.retriesTotal >= 1
    => LET n == Len(tx.results)
       IN /\ tx.sessions <= tx.retriesTotal
          /\ tx.sessions \in {n, n + 1}
          /\ tx.ended = n
          /\ \A k \in 1..(tx.sessions - 1) : IsConflict(tx.results[k])
          /\ tx.pc = "done"
               => /\ n >= 1
                  /\ tx.sessions = n
                  /\ tx.results[n] = "ok"
                       => tx.outcome = "resolved" /\ tx.response = <<n>>
                  /\ tx.results[n] # "ok"
                       => tx.outcome = "rejected" /\ tx.thrown = "DeveloperError"
                  /\ IsConflict(tx.results[n]) => n = tx.retriesTotal

\* a transaction with at least two retries met a WriteConflict and then
\* went through on its second attempt
C25_Witness ==
  /\ tx.pc = "done"
  /\ tx.retriesTotal >= 2
  /\ tx.results = <<"WriteConflict", "ok">>
  /\ tx.outcome = "resolved"

\* C30: for every value of options.retries, 0 and negative numbers
\* included, a transaction that resolves without error has invoked method
\* at least once.
C30_SuccessRanMethod ==
  tx.pc = "done" /\ tx.outcome = "resolved" => tx.sessions >= 1


\* the records of pages 1..k, in the order they were returned
RECURSIVE Traversed(_)
Traversed(k) == IF k = 0 THEN <<>> ELSE Traversed(k - 1) \o pages[k].response

\* pages 1..k are a forward traversal that has come to its end: a first
\* page without skip, every further page fetched with the next cursor of
\* the page before it, hasNext true on every page but the last
ForwardTraversal(k) ==
  /\ k \in DOMAIN pages
  /\ IsOffset(pages[1])
  /\ pages[1].skip = <<>>
  /\ \A i \in 2..k : IsNext(pages[i]) /\ searchPrevious(pages[i].query, pages[i].options) = <<>>
  /\ \A i \in 1..(k - 1) : pages[i].hasNext
  /\ ~pages[k].hasNext

\* C26: under the default sort (added_at descending) and distinct added_at
\* values, the first page with limit L followed by the pages of the next
\* cursors until hasNext is false returns every matching record exactly
\* once, in descending added_at order.
C26_ForwardTraversal ==
  \A k \in DOMAIN pages :
    ForwardTraversal(k) /\ pages[1].sort = this_sort
      => Traversed(k) = SortStage(docs, this_sort)

\* a traversal of three pages has returned the whole collection
C26_Witness ==
  /\ Len(pages) = 3
  /\ ForwardTraversal(3)
  /\ querySort = <<>>
  /\ Len(docs) > 2 * queryLimit
  /\ Traversed(3) = SortStage(docs, this_sort)


\* a flow of the given kind is in the bag
HasTask(kind) == \E t \in DOMAIN tasks : t.kind = kind

\* C27: in the reconnect-timer revision, when disconnect is called while a
\* reconnect attempt started by the reconnect timer is awaiting the driver,
\* then once both have completed the manager is disconnected (connected
\* false, client and db undefined) and stays so until the connection getter
\* is requested again.
C27_DisconnectWins ==
  ( /\ revision = "timer"
    /\ \E t \in DOMAIN tasks :
         t.kind = "disconnect" /\ t.during /\ t.pc = "done" /\ t.outcome = "resolved"
    /\ \A t \in DOMAIN tasks : t.kind = "disconnect" => t.pc = "done"
    /\ ~HasTask("reconnect")
    /\ ~HasTask("connection")
    /\ transport = 0 )
  => ( /\ ~mongo.connected
       /\ mongo.client = <<>>
       /\ mongo.db = <<>> )

\* C28: in the reconnect-timer revision, every connect() that fails (emits
\* 'error' and throws ConnectionError), a failure of the collection-list
\* fetch after the driver client was created included, leaves connected
\* false.
C28_FailedConnectNotConnected ==
  [][ ( /\ revision = "timer"
        /\ last' = "connect"
        /\ emitted' # <<>>
        /\ emitted'[1] = "error" )
      => ~mongo'.connected ]_vars

====
